---- MODULE Spec2Model ----
(***************************************************************************)
(* Conversation lifecycle manager (src/src/services/conversationManager.js) *)
(* and response orchestration (src/src/services/aiService.js) over the     *)
(* persistence gateway (src/src/config/database.js).                       *)
(*                                                                         *)
(* The relational store is modelled by the meaning of the statements the   *)
(* code sends: Conversations is a table keyed by conversation_id, Messages *)
(* is kept per conversation in created_at order.  One executeQuery call is *)
(* one statement batch: it either commits as a unit or throws and leaves   *)
(* the store as it was (the addMessage batch is a BEGIN/COMMIT             *)
(* transaction).  Every await of a request-handling task is a point at     *)
(* which other tasks' statements may run.                                  *)
(***************************************************************************)
EXTENDS Integers, Sequences, FiniteSets, TLC

(***************************************************************************)
(* Bounds of the model.                                                    *)
(***************************************************************************)
MaxCalls == 2            \* processChatMessage calls started in a behaviour
MaxDirectWrites == 1     \* direct conversation-manager writes next to the tasks
MaxSeqWrites == 4        \* writes of the sequential client of SpecRead
MaxLimit == 4            \* largest limit argument of a history read
MaxOffset == 2           \* largest offset argument of a history read
MaxAdminWrites == 3      \* writes of the sequential client of SpecAdmin
MaxTicks == 3            \* advances of the clock in a behaviour
MaxUserLimit == 2        \* largest limit argument of a listing of conversations
MaxRequests == 2         \* HTTP requests received in a behaviour
MaxPools == 3            \* connection pools created in a behaviour
MaxProperties == 2       \* rows of the Properties table
MaxBrokerCalls == 2      \* getMarketAnalysis calls in a behaviour
MaxShowingCalls == 3     \* scheduleShowing calls in a behaviour

Tasks == {"t1", "t2"}
ConvIds == {"c1", "c2"}

(***************************************************************************)
(* Texts.  A text is a string; toLowerCase and includes are computed       *)
(* character by character.                                                 *)
(***************************************************************************)
UpperChars == "ABCDEFGHIJKLMNOPQRSTUVWXYZ"
LowerChars == "abcdefghijklmnopqrstuvwxyz"

LowerChar(ch) ==
    IF \E i \in 1..Len(UpperChars) : SubSeq(UpperChars, i, i) = ch
    THEN LET i == CHOOSE j \in 1..Len(UpperChars) : SubSeq(UpperChars, j, j) = ch
         IN  SubSeq(LowerChars, i, i)
    ELSE ch

RECURSIVE ToLowerCase(_)
ToLowerCase(s) ==
    IF Len(s) = 0 THEN ""
    ELSE LowerChar(SubSeq(s, 1, 1)) \o ToLowerCase(SubSeq(s, 2, Len(s)))

Includes(s, k) ==
    \E i \in 1..(Len(s) - Len(k) + 1) : SubSeq(s, i, i + Len(k) - 1) = k

\* SYSTEM_PROMPTS['v2.0'] of aiConfig.js
BasePrompt == "You are Rachel, a knowledgeable real estate assistant. Help with property searches, market analysis, viewings, and guidance. Be professional, warm, patient with first-time buyers, efficient with investors. Ask clarifying questions, provide actionable information, respect privacy, never guarantee values."
ConversationPrompt == "Continue as Rachel, the real estate assistant. Maintain consistency with conversation history and adapt based on client's experience level, preferences, communication style, and process stage. Reference previous points, ask follow-ups, provide next steps."
ErrorPrompt == "I apologize for the technical issue. As Rachel, I can help with property searches, market analysis, viewings, process guidance, and agent connections. Please rephrase your question."

getSystemPrompt(type) ==
    CASE type = "base" -> BasePrompt
      [] type = "conversation" -> ConversationPrompt
      [] type = "error" -> ErrorPrompt
      [] OTHER -> BasePrompt

\* the canned paragraphs of simulateAIResponse
PropertyResponse == "I'd be happy to help you with your property search! To provide you with the best recommendations, I'd like to know more about what you're looking for. What type of property interests you - residential, commercial, or investment? Also, do you have a preferred location or price range in mind?"
MarketResponse == "Market analysis is one of my specialties! Property values can vary significantly based on location, property type, and current market conditions. To give you accurate pricing information, could you tell me the specific area you're interested in? I can provide recent sales data and market trends for that location."
ScheduleResponse == "I can absolutely help you schedule property viewings! I work with a network of experienced real estate agents who can arrange showings at your convenience. What properties are you interested in viewing, and what days/times work best for you?"
AgentResponse == "I'd be pleased to connect you with one of our qualified real estate agents! Our agents specialize in different areas and property types. What type of real estate services do you need, and what's your preferred location? This will help me match you with the most suitable agent."
GreetingResponse == "Hello! I'm Rachel, your real estate assistant. I'm here to help you with property searches, market analysis, scheduling viewings, and connecting you with the right real estate professionals. What can I assist you with today?"

(***************************************************************************)
(* Values.  A content value is [str, text]: str is FALSE for a value that  *)
(* is not a JavaScript string (an array such as ['hi'], which has a length *)
(* and a toString but no toLowerCase); text is its string form.            *)
(***************************************************************************)
Str(s) == [str |-> TRUE, text |-> s]
NonStr(s) == [str |-> FALSE, text |-> s]

Null == [null |-> TRUE]
NullId == "null"
Anonymous == "anonymous"
NoUser == "null"
Statuses == {"active", "paused", "completed", "archived", "deleted"}

\* ConversationManager.estimateTokenCount / AIService.estimateTokenCount
estimateTokenCount(text) == (Len(text) + 3) \div 4

DefaultMemoryLimit == 20   \* parseInt(process.env.AI_CONVERSATION_MEMORY_LIMIT) || 20
ErrorTokenCount == 100     \* tokenCount of the substituted apology

\* values of AI_CONVERSATION_MEMORY_LIMIT in the environment
MemoryLimitEnv == {"unset", "2"}

\* ConversationManager constructor: parseInt(env) || 20
ParseMemoryLimit(env) == IF env = "2" THEN 2 ELSE DefaultMemoryLimit

\* a limit argument that was not given (null)
NullLimit == -1

Min(a, b) == IF a < b THEN a ELSE b
Reverse(s) == [i \in 1..Len(s) |-> s[Len(s) + 1 - i]]

(***************************************************************************)
(* The store and the statements of the conversation manager.               *)
(*   convs : conversation_id -> Conversations row (domain = existing rows) *)
(*   msgs  : conversation_id -> Messages rows in created_at order          *)
(***************************************************************************)
NextMessageId(msgs) ==
    LET RECURSIVE Total(_)
        Total(S) == IF S = {} THEN 0
                    ELSE LET c == CHOOSE x \in S : TRUE
                         IN  Len(msgs[c]) + Total(S \ {c})
    IN  1 + Total(DOMAIN msgs)

\* INSERT INTO Conversations (..., GETDATE(), GETDATE(), 'active', @metadata, 0),
\* userId || 'anonymous'
InsertConversation(convs, id, userId, metadata, createdAt) ==
    [c \in DOMAIN convs \cup {id} |->
        IF c = id
        THEN [user_id |-> IF userId = NoUser THEN Anonymous ELSE userId,
              created_at |-> createdAt,
              status |-> "active", metadata |-> metadata, message_count |-> 0]
        ELSE convs[c]]

\* variant: no status filter
getConversation_AnyStatus(convs, id) ==
    IF id \in DOMAIN convs
    THEN [conversationId |-> id, userId |-> convs[id].user_id,
          status |-> convs[id].status, metadata |-> convs[id].metadata,
          messageCount |-> convs[id].message_count]
    ELSE Null

\* SELECT ... FROM Conversations WHERE conversation_id = @id AND status != 'deleted'
getConversation(convs, id) ==
    IF id \in DOMAIN convs /\ convs[id].status # "deleted"
    THEN [conversationId |-> id, userId |-> convs[id].user_id,
          status |-> convs[id].status, metadata |-> convs[id].metadata,
          messageCount |-> convs[id].message_count]
    ELSE Null

\* the row addMessage inserts: token_count = estimateTokenCount(content)
MessageRow(msgs, role, content) ==
    [message_id |-> NextMessageId(msgs), role |-> role, content |-> content.text,
     token_count |-> estimateTokenCount(content.text)]

\* variant: the INSERT without the UPDATE of the counter
AddMessageBatch_InsertOnly(store, id, role, content, ok) ==
    [conversations |-> store.conversations,
     messages |-> [store.messages EXCEPT
                     ![id] = Append(@, MessageRow(store.messages, role, content))]]

\* variant: a failed batch keeps its INSERT
AddMessageBatch_NoRollback(store, id, role, content, ok) ==
    LET inserted == [store.messages EXCEPT
                       ![id] = Append(@, MessageRow(store.messages, role, content))]
    IN  IF ok
        THEN [conversations |->
                 IF id \in DOMAIN store.conversations
                 THEN [store.conversations EXCEPT ![id].message_count = @ + 1]
                 ELSE store.conversations,
              messages |-> inserted]
        ELSE [conversations |-> store.conversations, messages |-> inserted]

\* variant: a failed batch also removes the previous row of the conversation
AddMessageBatch_UndoPrevious(store, id, role, content, ok) ==
    IF ok
    THEN [conversations |->
             IF id \in DOMAIN store.conversations
             THEN [store.conversations EXCEPT ![id].message_count = @ + 1]
             ELSE store.conversations,
          messages |-> [store.messages EXCEPT
                          ![id] = Append(@, MessageRow(store.messages, role, content))]]
    ELSE [conversations |->
             IF id \in DOMAIN store.conversations /\ store.messages[id] # <<>>
             THEN [store.conversations EXCEPT ![id].message_count = @ - 1]
             ELSE store.conversations,
          messages |-> [store.messages EXCEPT
                          ![id] = IF @ = <<>> THEN @ ELSE SubSeq(@, 1, Len(@) - 1)]]


\* BEGIN TRANSACTION; INSERT INTO Messages ...; UPDATE Conversations SET
\* message_count = message_count + 1 WHERE conversation_id = @id; COMMIT.
\* ok = FALSE: executeQuery throws and the transaction is not committed.
AddMessageBatch(store, id, role, content, ok) ==
    IF ok
    THEN [conversations |->
             IF id \in DOMAIN store.conversations
             THEN [store.conversations EXCEPT ![id].message_count = @ + 1]
             ELSE store.conversations,
          messages |-> [store.messages EXCEPT
                          ![id] = Append(@, MessageRow(store.messages, role, content))]]
    ELSE store

\* variant: TOP applied before OFFSET
SelectTopOffset_TopFirst(rows, limit, offset) ==
    LET desc == Reverse(rows)
        top == SubSeq(desc, 1, Min(limit, Len(desc)))
    IN  SubSeq(top, offset + 1, Len(top))

\* SELECT TOP (@limit) ... ORDER BY created_at DESC OFFSET @offset ROWS
SelectTopOffset(rows, limit, offset) ==
    LET desc == Reverse(rows)
        rest == SubSeq(desc, offset + 1, Len(desc))
    IN  SubSeq(rest, 1, Min(limit, Len(rest)))

\* variant: the rows are not reversed
getConversationHistory_NoReverse(msgs, maxLen, id, limit, offset) ==
    LET messageLimit == IF limit = NullLimit \/ limit = 0 THEN maxLen ELSE limit
        recordset == SelectTopOffset(msgs[id], messageLimit, offset)
    IN  [i \in 1..Len(recordset) |->
           [messageId |-> recordset[i].message_id,
            role |-> recordset[i].role,
            content |-> recordset[i].content,
            tokenCount |-> recordset[i].token_count]]

\* getConversationHistory: messageLimit = limit || maxConversationLength,
\* rows mapped to message objects and reversed
getConversationHistory(msgs, maxLen, id, limit, offset) ==
    LET messageLimit == IF limit = NullLimit \/ limit = 0 THEN maxLen ELSE limit
        recordset == SelectTopOffset(msgs[id], messageLimit, offset)
        mapped == [i \in 1..Len(recordset) |->
                     [messageId |-> recordset[i].message_id,
                      role |-> recordset[i].role,
                      content |-> recordset[i].content,
                      tokenCount |-> recordset[i].token_count]]
    IN  Reverse(mapped)

\* variant: every row of the conversation, no window
buildConversationContext_WholeHistory(msgs, maxLen, id, includeSystemPrompt) ==
    LET history == msgs[id]
        head == IF includeSystemPrompt
                THEN <<[role |-> "system", content |-> Str(getSystemPrompt("conversation"))]>>
                ELSE <<>>
    IN  head \o [i \in 1..Len(history) |->
                   [role |-> history[i].role, content |-> Str(history[i].content)]]

\* buildConversationContext: optional system entry, then the default history
buildConversationContext(msgs, maxLen, id, includeSystemPrompt) ==
    LET history == getConversationHistory(msgs, maxLen, id, NullLimit, 0)
        head == IF includeSystemPrompt
                THEN <<[role |-> "system", content |-> Str(getSystemPrompt("conversation"))]>>
                ELSE <<>>
    IN  head \o [i \in 1..Len(history) |->
                   [role |-> history[i].role, content |-> Str(history[i].content)]]

(***************************************************************************)
(* Conversation lifecycle: creation, status, listing, retention.           *)
(* Time is counted in days.  updated_at is not kept in the rows: the       *)
(* statements that order by it are given the order as an argument.         *)
(***************************************************************************)
\* a metadata argument that was not given (null)
NoMetadata == "null"

\* values of DATA_RETENTION_DAYS in the environment
RetentionEnv == {"unset", "0", "2"}
DefaultRetentionDays == 90

\* ConversationManager constructor: parseInt(env) || 90
ParseRetentionDays(env) == IF env = "2" THEN 2 ELSE DefaultRetentionDays

\* variant: the insert is sent again after a failure
createConversation_Retry(convs, id, userId, metadata, createdAt, oks) ==
    IF oks[1] \/ oks[2]
    THEN [conversations |-> InsertConversation(convs, id, userId, metadata, createdAt),
          threw |-> FALSE, queries |-> IF oks[1] THEN 1 ELSE 2,
          result |-> [conversationId |-> id,
                      userId |-> IF userId = NoUser THEN Anonymous ELSE userId,
                      status |-> "active", metadata |-> metadata, messageCount |-> 0]]
    ELSE [conversations |-> convs, threw |-> TRUE, queries |-> 2, result |-> Null]

\* createConversation: one executeQuery of the INSERT; oks[i] is the outcome
\* the i-th executeQuery of the call would have, queries the number sent
createConversation(convs, id, userId, metadata, createdAt, oks) ==
    IF oks[1]
    THEN [conversations |-> InsertConversation(convs, id, userId, metadata, createdAt),
          threw |-> FALSE, queries |-> 1,
          result |-> [conversationId |-> id,
                      userId |-> IF userId = NoUser THEN Anonymous ELSE userId,
                      status |-> "active", metadata |-> metadata, messageCount |-> 0]]
    ELSE [conversations |-> convs, threw |-> TRUE, queries |-> 1, result |-> Null]

\* UPDATE Conversations SET status = @status [, metadata = @metadata]
\* WHERE conversation_id = @conversationId
UpdateStatusStatement(convs, id, status, metadata) ==
    [conversations |->
        IF id \in DOMAIN convs
        THEN [convs EXCEPT ![id].status = status,
                           ![id].metadata = IF metadata # NoMetadata THEN metadata ELSE @]
        ELSE convs,
     rowsAffected |-> IF id \in DOMAIN convs THEN 1 ELSE 0]

\* variant: zero rows affected is not reported
updateConversationStatus_Silent(convs, id, status, metadata, ok) ==
    IF ~ok THEN [conversations |-> convs, error |-> "PersistenceError"]
    ELSE [conversations |-> UpdateStatusStatement(convs, id, status, metadata).conversations,
          error |-> ""]

\* updateConversationStatus: the UPDATE; rowsAffected[0] === 0 -> throw
updateConversationStatus(convs, id, status, metadata, ok) ==
    IF ~ok THEN [conversations |-> convs, error |-> "PersistenceError"]
    ELSE LET r == UpdateStatusStatement(convs, id, status, metadata)
         IN  [conversations |-> r.conversations,
              error |-> IF r.rowsAffected = 0 THEN "Conversation not found" ELSE ""]

\* the rows of SELECT ... WHERE user_id = @userId AND status != 'deleted'
UserRows(convs, userId) ==
    {c \in DOMAIN convs : convs[c].user_id = userId /\ convs[c].status # "deleted"}

\* the sequences that enumerate a set once each
Orders(S) ==
    {o \in [1..Cardinality(S) -> S] : \A i, j \in 1..Cardinality(S) : o[i] = o[j] => i = j}

\* variant: no status filter
getUserConversations_AnyStatus(convs, userId, limit, offset, order) ==
    LET all == {c \in DOMAIN convs : convs[c].user_id = userId}
        o == CHOOSE q \in Orders(all) : TRUE
        page == SubSeq(o, offset + 1, Min(offset + limit, Len(o)))
    IN  [i \in 1..Len(page) |->
           [conversationId |-> page[i], status |-> convs[page[i]].status,
            metadata |-> convs[page[i]].metadata,
            messageCount |-> convs[page[i]].message_count]]

\* getUserConversations: ... ORDER BY updated_at DESC OFFSET @offset ROWS
\* FETCH NEXT @limit ROWS ONLY; order = UserRows in updated_at DESC order
getUserConversations(convs, userId, limit, offset, order) ==
    LET page == SubSeq(order, offset + 1, Min(offset + limit, Len(order)))
    IN  [i \in 1..Len(page) |->
           [conversationId |-> page[i], status |-> convs[page[i]].status,
            metadata |-> convs[page[i]].metadata,
            messageCount |-> convs[page[i]].message_count]]

\* variant: the cutoff itself is included
CleanupStatement_Inclusive(convs, cutoffDate) ==
    LET hit == {c \in DOMAIN convs :
                   convs[c].created_at <= cutoffDate /\ convs[c].status # "deleted"}
    IN  [conversations |-> [c \in DOMAIN convs |->
                              IF c \in hit THEN [convs[c] EXCEPT !.status = "deleted"]
                              ELSE convs[c]],
         rowsAffected |-> Cardinality(hit)]

\* UPDATE Conversations SET status = 'deleted' WHERE created_at < @cutoffDate
\* AND status != 'deleted'
CleanupStatement(convs, cutoffDate) ==
    LET hit == {c \in DOMAIN convs :
                   convs[c].created_at < cutoffDate /\ convs[c].status # "deleted"}
    IN  [conversations |-> [c \in DOMAIN convs |->
                              IF c \in hit THEN [convs[c] EXCEPT !.status = "deleted"]
                              ELSE convs[c]],
         rowsAffected |-> Cardinality(hit)]

\* cleanupOldConversations: cutoffDate = today - dataRetentionDays; returns
\* rowsAffected[0]
cleanupOldConversations(convs, today, retentionDays, ok) ==
    LET cutoffDate == today - retentionDays
        r == CleanupStatement(convs, cutoffDate)
    IN  IF ok THEN [conversations |-> r.conversations, threw |-> FALSE,
                    result |-> r.rowsAffected]
        ELSE [conversations |-> convs, threw |-> TRUE, result |-> -1]

(***************************************************************************)
(* Response generation.                                                    *)
(***************************************************************************)
\* variant: the message is not lowercased
simulateAIResponse_CaseSensitive(conversationContext) ==
    LET last == IF Len(conversationContext) = 0
                THEN Str("")
                ELSE conversationContext[Len(conversationContext)].content
        userMessage == IF last.str /\ last.text = "" THEN Str("") ELSE last
        lower == userMessage.text
    IN  IF ~userMessage.str THEN [raised |-> TRUE, text |-> ""]
        ELSE [raised |-> FALSE,
              text |-> IF Includes(lower, "property") \/ Includes(lower, "house")
                         THEN PropertyResponse
                       ELSE IF Includes(lower, "price") \/ Includes(lower, "market")
                         THEN MarketResponse
                       ELSE IF Includes(lower, "schedule") \/ Includes(lower, "viewing")
                         THEN ScheduleResponse
                       ELSE IF Includes(lower, "agent") \/ Includes(lower, "realtor")
                         THEN AgentResponse
                       ELSE GreetingResponse]

\* simulateAIResponse: the last entry's content || '', lowercased, first
\* matching keyword pair; toLowerCase raises on a value that is no string
simulateAIResponse(conversationContext) ==
    LET last == IF Len(conversationContext) = 0
                THEN Str("")
                ELSE conversationContext[Len(conversationContext)].content
        userMessage == IF last.str /\ last.text = "" THEN Str("") ELSE last
        lower == ToLowerCase(userMessage.text)
    IN  IF ~userMessage.str THEN [raised |-> TRUE, text |-> ""]
        ELSE [raised |-> FALSE,
              text |-> IF Includes(lower, "property") \/ Includes(lower, "house")
                         THEN PropertyResponse
                       ELSE IF Includes(lower, "price") \/ Includes(lower, "market")
                         THEN MarketResponse
                       ELSE IF Includes(lower, "schedule") \/ Includes(lower, "viewing")
                         THEN ScheduleResponse
                       ELSE IF Includes(lower, "agent") \/ Includes(lower, "realtor")
                         THEN AgentResponse
                       ELSE GreetingResponse]

\* variant: no catch, the error propagates
generateAIResponse_Propagates(conversationContext) ==
    LET r == simulateAIResponse(conversationContext)
    IN  IF r.raised
        THEN [content |-> "", tokenCount |-> 0, error |-> TRUE, rejected |-> TRUE]
        ELSE [content |-> r.text, tokenCount |-> estimateTokenCount(r.text),
              error |-> FALSE, rejected |-> FALSE]

\* generateAIResponse: try { simulate } catch { apology, tokenCount 100, error }
\* rejected = the returned promise rejects instead of resolving
generateAIResponse(conversationContext) ==
    LET r == simulateAIResponse(conversationContext)
    IN  IF r.raised
        THEN [content |-> getSystemPrompt("error"), tokenCount |-> ErrorTokenCount,
              error |-> TRUE, rejected |-> FALSE]
        ELSE [content |-> r.text, tokenCount |-> estimateTokenCount(r.text),
              error |-> FALSE, rejected |-> FALSE]

(***************************************************************************)
(* State.                                                                  *)
(***************************************************************************)
VARIABLES
    conversations,          \* Conversations table
    messages,               \* Messages table, per conversation_id
    maxConversationLength,  \* ConversationManager.maxConversationLength
    requestCount,           \* AIService.requestCount, per AIService instance
    tasks,                  \* processChatMessage calls in flight: position and locals
    obs,                    \* per call: what it did to the store (history variable)
    scenario,               \* inputs the clients draw from, and their budgets
    directWrites,           \* direct conversation-manager writes issued so far
    lastCall,               \* the latest direct conversation-manager call and its outcome
    addLog,                 \* per conversation_id: what the successful addMessage
                            \* calls returned, in the order they returned
    now,                    \* the clock (new Date(), GETDATE()), in days
    ticks,                  \* advances of the clock so far
    dataRetentionDays,      \* ConversationManager.dataRetentionDays
    connectionPool,         \* database.js: let connectionPool
    isConnected,            \* database.js: let isConnected
    pools,                  \* every sql.ConnectionPool constructed so far, and its state
    callers,                \* connect/executeQuery calls in flight on the gateway
    validated,              \* the pools on which testConnection's query has succeeded
    requests,               \* HTTP requests in flight: position in the chain, response
    hits,                   \* per rate limiter and client address: requests counted
    voiceApiCalls,          \* the voice_settings the external voice API was called with
    arrived,                \* HTTP requests received so far
    properties,             \* Properties table
    showings,               \* PropertyShowings table
    scheduling              \* the scheduleShowing call in flight: position and locals

clockVars == <<now, ticks, dataRetentionDays>>
gatewayVars == <<connectionPool, isConnected, pools, callers, validated>>
httpVars == <<requests, hits, voiceApiCalls, arrived>>
managerVars == <<conversations, messages, maxConversationLength, requestCount, tasks,
                 obs, scenario, directWrites, lastCall, addLog>>
brokerVars == <<properties, showings, scheduling>>

vars == <<conversations, messages, maxConversationLength, requestCount, tasks, obs,
          scenario, directWrites, lastCall, addLog, clockVars, gatewayVars, httpVars,
          brokerVars>>

store == [conversations |-> conversations, messages |-> messages]

\* the AIService instances of the process: each of the chat, voice and health
\* route modules runs `const aiService = new AIService()`
ChatService == "chatRoutes"
VoiceService == "voiceRoutes"
HealthService == "healthRoutes"
AIServices == {ChatService, VoiceService, HealthService}

\* connectionPool = null
NoPool == 0

\* the concurrent users of the gateway
Callers == {"q1", "q2"}
IdleCaller == [pc |-> "idle", op |-> "none", pool |-> NoPool]

\* the rate limiters of the routes and the client addresses they key on
Limiters == {"chatRateLimit", "voiceRateLimit"}
Clients == {"ip1"}

\* a field the JSON body does not have
Undefined == "undefined"

\* a number of the body, or the absence of one
Num(v) == [defined |-> TRUE, value |-> v]
NoNum == [defined |-> FALSE, value |-> 0]

\* the voiceSettings object of a body, or the absence of one
VoiceSettings(stability, similarityBoost, style) ==
    [given |-> TRUE, stability |-> stability, similarityBoost |-> similarityBoost,
     style |-> style]
NoVoiceSettings ==
    [given |-> FALSE, stability |-> NoNum, similarityBoost |-> NoNum, style |-> NoNum]

\* req.query of the history route: limit and offset as numbers
NoQuery == [conversationId |-> Undefined, limit |-> NoNum, offset |-> NoNum]

NoBody == [message |-> Str(""), conversationId |-> NullId, userId |-> NoUser,
           text |-> "", voiceSettings |-> NoVoiceSettings, status |-> Undefined,
           query |-> NoQuery]

\* a response: status 0 until it is sent
NoResponse == [status |-> 0, headers |-> {}]

IdleRequest ==
    [pc |-> "idle", route |-> "none", client |-> "none", body |-> NoBody, at |-> 0,
     res |-> NoResponse, limited |-> FALSE, hitNo |-> 0, serviceCalls |-> 0,
     voiceCalled |-> FALSE, dbFailed |-> FALSE, history |-> <<>>, reported |-> 0]

\* positions of processChatMessage after which the conversation is loaded
Loaded == {"buildContext", "addUser", "generate", "addAssistant"}

IdleTask ==
    [pc |-> "idle", message |-> Str(""), conversationId |-> NullId, userId |-> NoUser,
     context |-> "{}", conversation |-> Null, conversationContext |-> <<>>,
     aiResponse |-> Null, result |-> Null, error |-> ""]

NoObs ==
    [created |-> FALSE, userPos |-> 0, asstPos |-> 0, overlapped |-> FALSE,
     genRaised |-> FALSE, msgsAtLoad |-> <<>>, msgsAtEnd |-> <<>>, countAtEnd |-> -1,
     failedAt |-> ""]

NoCall == [op |-> "none", seq |-> 0]

\* an input of a chat client: the arguments of one processChatMessage call
ChatInput(message, userId, context) ==
    [message |-> message, userId |-> userId, context |-> context]

ChatInputs == {ChatInput(Str("I need a House"), "u1", "{}"),
               ChatInput(NonStr("hi"), NoUser, "{}")}

\* the conversation manager and the response service after construction
InitManager ==
    /\ conversations = <<>>
    /\ messages = [c \in ConvIds |-> <<>>]
    /\ requestCount = [service \in AIServices |-> 0]
    /\ tasks = [t \in Tasks |-> IdleTask]
    /\ obs = [t \in Tasks |-> NoObs]
    /\ directWrites = 0
    /\ lastCall = NoCall
    /\ addLog = [c \in ConvIds |-> <<>>]

\* the clock at the start; dataRetentionDays with DATA_RETENTION_DAYS unset
InitClock ==
    /\ now = 0
    /\ ticks = 0
    /\ dataRetentionDays = ParseRetentionDays("unset")

\* database.js at module load: no pool, not connected
InitGateway ==
    /\ connectionPool = NoPool
    /\ isConnected = FALSE
    /\ pools = <<>>
    /\ callers = [c \in Callers |-> IdleCaller]
    /\ validated = {}

\* no request in flight, no request counted, the voice API not called yet
InitHttp ==
    /\ requests = [r \in Tasks |-> IdleRequest]
    /\ hits = [l \in Limiters |-> [a \in Clients |-> 0]]
    /\ voiceApiCalls = {}
    /\ arrived = 0

\* no scheduleShowing call in flight
IdleScheduling == [pc |-> "idle", propertyId |-> 0, agentId |-> "none"]

InitBroker ==
    /\ properties = <<>>
    /\ showings = <<>>
    /\ scheduling = IdleScheduling

InitCommon ==
    /\ InitManager
    /\ InitClock
    /\ InitGateway
    /\ InitHttp
    /\ InitBroker

Init ==
    /\ InitCommon
    /\ maxConversationLength = ParseMemoryLimit("2")
    /\ scenario = [inputs |-> ChatInputs, roles |-> {"system"},
                   statuses |-> {"deleted"}, metas |-> {NoMetadata},
                   calls |-> MaxCalls, writes |-> MaxDirectWrites]

\* a write of `writer` to conversation id overlaps every other loaded call on it
MarkOverlap(o, writer, id) ==
    [u \in Tasks |->
        IF u # writer /\ tasks[u].pc \in Loaded /\ tasks[u].conversationId = id
        THEN [o[u] EXCEPT !.overlapped = TRUE]
        ELSE o[u]]

\* the fields of the message object addMessage returns (messageId apart)
Returned(id, role, content) ==
    [role |-> role, content |-> content.text,
     tokenCount |-> estimateTokenCount(content.text)]

\* uuidv4(): an id no persisted row carries
FreshIds == {c \in ConvIds : c \notin DOMAIN conversations /\ messages[c] = <<>>}

CountOf(convs, id) == IF id \in DOMAIN convs THEN convs[id].message_count ELSE -1

(***************************************************************************)
(* processChatMessage, one action per await.                               *)
(***************************************************************************)
\* entry: this.requestCount++, then getConversation or createConversation
Start(t) ==
    /\ tasks[t].pc = "idle"
    /\ requestCount[ChatService] < scenario.calls
    /\ \E input \in scenario.inputs, conversationId \in ConvIds \cup {NullId} :
         tasks' = [tasks EXCEPT ![t] =
                     [IdleTask EXCEPT !.pc = IF conversationId # NullId
                                             THEN "getConversation"
                                             ELSE "createConversation",
                                      !.message = input.message,
                                      !.conversationId = conversationId,
                                      !.userId = input.userId,
                                      !.context = input.context]]
    /\ requestCount' = [requestCount EXCEPT ![ChatService] = @ + 1]
    /\ obs' = [obs EXCEPT ![t] = NoObs]
    /\ UNCHANGED <<clockVars, gatewayVars, httpVars, brokerVars,
                   conversations, messages, maxConversationLength, scenario,
                   directWrites, lastCall, addLog>>

\* conversation = await getConversation(conversationId); null -> throw
GetConversationStep(t) ==
    /\ tasks[t].pc = "getConversation"
    /\ \E ok \in BOOLEAN :
         LET conversation == getConversation(conversations, tasks[t].conversationId)
         IN  /\ tasks' = [tasks EXCEPT ![t] =
                   IF ~ok THEN [@ EXCEPT !.pc = "failed", !.error = "PersistenceError"]
                   ELSE IF conversation = Null
                   THEN [@ EXCEPT !.pc = "failed", !.error = "Conversation not found"]
                   ELSE [@ EXCEPT !.pc = "buildContext", !.conversation = conversation]]
             /\ obs' = [obs EXCEPT ![t] =
                   IF ok /\ conversation # Null
                   THEN [@ EXCEPT !.msgsAtLoad = messages[tasks[t].conversationId]]
                   ELSE [@ EXCEPT !.failedAt = "getConversation",
                                  !.countAtEnd =
                                     CountOf(conversations, tasks[t].conversationId)]]
    /\ UNCHANGED <<clockVars, gatewayVars, httpVars, brokerVars,
                   conversations, messages, maxConversationLength, requestCount,
                   scenario, directWrites, lastCall, addLog>>

\* conversationContext = await buildConversationContext(conversationId)
BuildContextStep(t) ==
    /\ tasks[t].pc = "buildContext"
    /\ \E ok \in BOOLEAN :
         /\ tasks' = [tasks EXCEPT ![t] =
               IF ~ok THEN [@ EXCEPT !.pc = "failed", !.error = "PersistenceError"]
               ELSE [@ EXCEPT !.pc = "addUser",
                              !.conversationContext =
                                 buildConversationContext(messages, maxConversationLength,
                                                          tasks[t].conversationId, TRUE)]]
         /\ obs' = [obs EXCEPT ![t] =
               IF ok THEN @
               ELSE [@ EXCEPT !.failedAt = "buildContext",
                              !.countAtEnd =
                                 CountOf(conversations, tasks[t].conversationId)]]
    /\ UNCHANGED <<clockVars, gatewayVars, httpVars, brokerVars,
                   conversations, messages, maxConversationLength, requestCount,
                   scenario, directWrites, lastCall, addLog>>

\* conversation = await createConversation(userId, context); context seeded
\* with the base system prompt
CreateConversationStep(t) ==
    /\ tasks[t].pc = "createConversation"
    /\ \E id \in FreshIds, ok \in BOOLEAN :
         /\ conversations' =
               IF ok THEN InsertConversation(conversations, id, tasks[t].userId,
                                             tasks[t].context, now)
               ELSE conversations
         /\ tasks' = [tasks EXCEPT ![t] =
               IF ~ok THEN [@ EXCEPT !.pc = "failed", !.error = "PersistenceError"]
               ELSE [@ EXCEPT !.pc = "addUser",
                              !.conversationId = id,
                              !.conversation =
                                 [conversationId |-> id,
                                  userId |-> IF tasks[t].userId = NoUser
                                             THEN Anonymous ELSE tasks[t].userId,
                                  status |-> "active",
                                  metadata |-> tasks[t].context,
                                  messageCount |-> 0],
                              !.conversationContext =
                                 <<[role |-> "system",
                                    content |-> Str(getSystemPrompt("base"))]>>]]
         /\ obs' = [obs EXCEPT ![t] =
               IF ok THEN [@ EXCEPT !.created = TRUE]
               ELSE [@ EXCEPT !.failedAt = "createConversation"]]
    /\ UNCHANGED <<clockVars, gatewayVars, httpVars, brokerVars,
                   messages, maxConversationLength, requestCount, scenario,
                   directWrites, lastCall, addLog>>

\* await addMessage(conversationId, 'user', message, ...); context.push(user turn)
AddUserStep(t) ==
    /\ tasks[t].pc = "addUser"
    /\ \E ok \in BOOLEAN :
         LET id == tasks[t].conversationId
             after == AddMessageBatch(store, id, "user", tasks[t].message, ok)
         IN  /\ conversations' = after.conversations
             /\ messages' = after.messages
             /\ tasks' = [tasks EXCEPT ![t] =
                   IF ~ok THEN [@ EXCEPT !.pc = "failed", !.error = "PersistenceError"]
                   ELSE [@ EXCEPT !.pc = "generate",
                                  !.conversationContext =
                                     Append(@, [role |-> "user",
                                                content |-> tasks[t].message])]]
             /\ obs' = [(IF after.messages # messages
                         THEN MarkOverlap(obs, t, id) ELSE obs) EXCEPT ![t] =
                   IF ok THEN [@ EXCEPT !.userPos = Len(after.messages[id])]
                   ELSE [@ EXCEPT !.failedAt = "addUser",
                                  !.countAtEnd = CountOf(after.conversations, id),
                                  !.msgsAtEnd = after.messages[id]]]
             /\ addLog' = IF ok THEN [addLog EXCEPT ![id] = Append(@, Returned(id, "user", tasks[t].message))]
                          ELSE addLog
    /\ UNCHANGED <<clockVars, gatewayVars, httpVars, brokerVars,
                   maxConversationLength, requestCount, scenario, directWrites,
                   lastCall>>

\* aiResponse = await generateAIResponse(conversationContext, context)
GenerateStep(t) ==
    /\ tasks[t].pc = "generate"
    /\ LET aiResponse == generateAIResponse(tasks[t].conversationContext)
       IN  /\ tasks' = [tasks EXCEPT ![t] =
                 IF aiResponse.rejected
                 THEN [@ EXCEPT !.pc = "failed", !.error = "GenerationError"]
                 ELSE [@ EXCEPT !.pc = "addAssistant", !.aiResponse = aiResponse]]
           /\ obs' = [obs EXCEPT ![t] =
                 [@ EXCEPT !.genRaised =
                       simulateAIResponse(tasks[t].conversationContext).raised,
                    !.failedAt = IF aiResponse.rejected THEN "generate" ELSE @,
                    !.countAtEnd = IF aiResponse.rejected
                                   THEN CountOf(conversations, tasks[t].conversationId)
                                   ELSE @,
                    !.msgsAtEnd = IF aiResponse.rejected
                                  THEN messages[tasks[t].conversationId]
                                  ELSE @]]
    /\ UNCHANGED <<clockVars, gatewayVars, httpVars, brokerVars,
                   conversations, messages, maxConversationLength, requestCount,
                   scenario, directWrites, lastCall, addLog>>

\* variant: messageCount counts the user message only
ChatResult_CountPlusOne(task) ==
    [conversationId |-> task.conversationId,
     response |-> task.aiResponse.content,
     metadata |-> [tokenCount |-> task.aiResponse.tokenCount,
                   messageCount |-> task.conversation.messageCount + 1]]

\* the object processChatMessage returns
ChatResult(task) ==
    [conversationId |-> task.conversationId,
     response |-> task.aiResponse.content,
     metadata |-> [tokenCount |-> task.aiResponse.tokenCount,
                   messageCount |-> task.conversation.messageCount + 2]]

\* await addMessage(conversationId, 'assistant', aiResponse.content, ...); return
AddAssistantStep(t) ==
    /\ tasks[t].pc = "addAssistant"
    /\ \E ok \in BOOLEAN :
         LET id == tasks[t].conversationId
             after == AddMessageBatch(store, id, "assistant",
                                      Str(tasks[t].aiResponse.content), ok)
         IN  /\ conversations' = after.conversations
             /\ messages' = after.messages
             /\ tasks' = [tasks EXCEPT ![t] =
                   IF ~ok THEN [@ EXCEPT !.pc = "failed", !.error = "PersistenceError"]
                   ELSE [@ EXCEPT !.pc = "done", !.result = ChatResult(tasks[t])]]
             /\ obs' = [(IF after.messages # messages
                         THEN MarkOverlap(obs, t, id) ELSE obs) EXCEPT ![t] =
                   [@ EXCEPT !.asstPos = IF ok THEN Len(after.messages[id]) ELSE 0,
                             !.failedAt = IF ok THEN @ ELSE "addAssistant",
                             !.countAtEnd = CountOf(after.conversations, id),
                             !.msgsAtEnd = after.messages[id]]]
             /\ addLog' = IF ok THEN [addLog EXCEPT ![id] = Append(@, Returned(id, "assistant", Str(tasks[t].aiResponse.content)))]
                          ELSE addLog
    /\ UNCHANGED <<clockVars, gatewayVars, httpVars, brokerVars,
                   maxConversationLength, requestCount, scenario, directWrites,
                   lastCall>>

\* the caller has taken the result or the error: the call is over
Finish(t) ==
    /\ tasks[t].pc \in {"done", "failed"}
    /\ tasks' = [tasks EXCEPT ![t] = IdleTask]
    /\ obs' = [obs EXCEPT ![t] = NoObs]
    /\ UNCHANGED <<clockVars, gatewayVars, httpVars, brokerVars,
                   conversations, messages, maxConversationLength, requestCount,
                   scenario, directWrites, lastCall, addLog>>

(***************************************************************************)
(* Direct calls of the conversation manager.                               *)
(***************************************************************************)
\* addMessage(conversationId, role, content)
AddMessageCall ==
    /\ directWrites < scenario.writes
    /\ \E id \in ConvIds, role \in scenario.roles,
          content \in {i.message : i \in {j \in scenario.inputs : j.message.str}}, ok \in BOOLEAN :
         LET after == AddMessageBatch(store, id, role, content, ok)
         IN  /\ conversations' = after.conversations
             /\ messages' = after.messages
             /\ obs' = IF after.messages # messages
                       THEN MarkOverlap(obs, "client", id) ELSE obs
             /\ lastCall' = [op |-> "addMessage", seq |-> directWrites + 1,
                             conversationId |-> id, ok |-> ok]
             /\ addLog' = IF ok THEN [addLog EXCEPT ![id] = Append(@, Returned(id, role, content))]
                          ELSE addLog
    /\ directWrites' = directWrites + 1
    /\ UNCHANGED <<clockVars, gatewayVars, httpVars, brokerVars,
                   maxConversationLength, requestCount, tasks, scenario>>

\* updateConversationStatus(conversationId, status): UPDATE Conversations SET
\* status = @status WHERE conversation_id = @id; zero rows affected -> throw
UpdateConversationStatusCall ==
    /\ directWrites < scenario.writes
    /\ \E id \in ConvIds, status \in scenario.statuses, metadata \in scenario.metas,
          ok \in BOOLEAN :
         LET r == updateConversationStatus(conversations, id, status, metadata, ok)
         IN  /\ conversations' = r.conversations
             /\ lastCall' = [op |-> "updateConversationStatus", seq |-> directWrites + 1,
                             conversationId |-> id, status |-> status,
                             metadata |-> metadata,
                             ok |-> r.error = "", error |-> r.error]
    /\ directWrites' = directWrites + 1
    /\ UNCHANGED <<clockVars, gatewayVars, httpVars, brokerVars,
                   messages, maxConversationLength, requestCount, tasks, obs, scenario,
                   addLog>>

\* createConversation(userId, metadata)
CreateConversationCall ==
    /\ directWrites < scenario.writes
    /\ \E id \in FreshIds, input \in scenario.inputs, oks \in [1..2 -> BOOLEAN] :
         LET r == createConversation(conversations, id, input.userId, input.context,
                                     now, oks)
         IN  /\ conversations' = r.conversations
             /\ lastCall' = [op |-> "createConversation", seq |-> directWrites + 1,
                             conversationId |-> id, userId |-> input.userId,
                             ok |-> ~r.threw, queries |-> r.queries,
                             result |-> r.result]
    /\ directWrites' = directWrites + 1
    /\ UNCHANGED <<clockVars, gatewayVars, httpVars, brokerVars,
                   messages, maxConversationLength, requestCount, tasks, obs, scenario,
                   addLog>>

\* getConversation(conversationId)
GetConversationCall ==
    /\ \E id \in ConvIds :
         lastCall' = [op |-> "getConversation", seq |-> directWrites,
                      conversationId |-> id,
                      result |-> getConversation(conversations, id)]
    /\ UNCHANGED <<clockVars, gatewayVars, httpVars, brokerVars,
                   conversations, messages, maxConversationLength, requestCount, tasks,
                   obs, scenario, directWrites, addLog>>

\* getConversationHistory(conversationId, limit, offset)
GetConversationHistoryCall ==
    /\ \E id \in ConvIds, limit \in {NullLimit} \cup 0..MaxLimit, offset \in 0..MaxOffset :
         lastCall' = [op |-> "getConversationHistory", seq |-> directWrites,
                      conversationId |-> id, limit |-> limit, offset |-> offset,
                      result |-> getConversationHistory(messages, maxConversationLength,
                                                        id, limit, offset)]
    /\ UNCHANGED <<clockVars, gatewayVars, httpVars, brokerVars,
                   conversations, messages, maxConversationLength, requestCount, tasks,
                   obs, scenario, directWrites, addLog>>

\* buildConversationContext(conversationId, includeSystemPrompt)
BuildConversationContextCall ==
    /\ \E id \in ConvIds, includeSystemPrompt \in BOOLEAN :
         lastCall' = [op |-> "buildConversationContext", seq |-> directWrites,
                      conversationId |-> id,
                      includeSystemPrompt |-> includeSystemPrompt,
                      result |-> buildConversationContext(messages, maxConversationLength,
                                                          id, includeSystemPrompt)]
    /\ UNCHANGED <<clockVars, gatewayVars, httpVars, brokerVars,
                   conversations, messages, maxConversationLength, requestCount, tasks,
                   obs, scenario, directWrites, addLog>>

\* getUserConversations(userId, limit, offset); the rows are returned in
\* updated_at DESC order, which is one of the orders of the rows
GetUserConversationsCall ==
    /\ \E userId \in ({Anonymous} \cup {i.userId : i \in scenario.inputs}) \ {NoUser},
          limit \in 1..MaxUserLimit, offset \in 0..1 :
         \E order \in Orders(UserRows(conversations, userId)) :
            lastCall' = [op |-> "getUserConversations", seq |-> directWrites,
                         userId |-> userId, limit |-> limit, offset |-> offset,
                         result |-> getUserConversations(conversations, userId, limit,
                                                         offset, order)]
    /\ UNCHANGED <<conversations, messages, maxConversationLength, requestCount, tasks,
                   obs, scenario, directWrites, addLog, clockVars, gatewayVars,
                   httpVars, brokerVars>>

\* cleanupOldConversations()
CleanupOldConversationsCall ==
    /\ directWrites < scenario.writes
    /\ \E ok \in BOOLEAN :
         LET r == cleanupOldConversations(conversations, now, dataRetentionDays, ok)
         IN  /\ conversations' = r.conversations
             /\ lastCall' = [op |-> "cleanupOldConversations", seq |-> directWrites + 1,
                             ok |-> ~r.threw, result |-> r.result]
    /\ directWrites' = directWrites + 1
    /\ UNCHANGED <<messages, maxConversationLength, requestCount, tasks, obs, scenario,
                   addLog, clockVars, gatewayVars, httpVars, brokerVars>>

\* the clock advances by a day, or by a day less than the retention period
Tick ==
    /\ ticks < MaxTicks
    /\ \E d \in {1, dataRetentionDays - 1} : now' = now + d
    /\ ticks' = ticks + 1
    /\ UNCHANGED <<conversations, messages, maxConversationLength, requestCount, tasks,
                   obs, scenario, directWrites, lastCall, addLog, dataRetentionDays,
                   gatewayVars, httpVars, brokerVars>>

(***************************************************************************)
(* The HTTP boundary: routes, their middleware chains and handlers.        *)
(* Voice-settings values are counted in hundredths (1.0 is 100).           *)
(***************************************************************************)
ChatMessageRoute == "POST /api/chat/message"
GetConversationRoute == "GET /api/chat/conversation/:conversationId"
StatusRoute == "PUT /api/chat/conversation/:conversationId/status"
SynthesizeRoute == "POST /api/voice/synthesize"
ChatAndSpeakRoute == "POST /api/voice/chat-and-speak"
ReadinessRoute == "GET /api/health/readiness"
LivenessRoute == "GET /api/health/liveness"
UnknownRoute == "GET /api/unknown"
HistoryRoute == "GET /api/chat/conversation/:conversationId/history"
ChatStatsRoute == "GET /api/chat/stats"
VoiceStatsRoute == "GET /api/voice/stats"
DetailedHealthRoute == "GET /api/health/detailed"
StatsRoutes == {ChatStatsRoute, VoiceStatsRoute, DetailedHealthRoute}

Routes == {ChatMessageRoute, GetConversationRoute, StatusRoute, SynthesizeRoute,
           ChatAndSpeakRoute, ReadinessRoute, LivenessRoute, UnknownRoute,
           HistoryRoute} \cup StatsRoutes

\* router.<method>(path, ...middleware, handler): the middleware of each route
Chain(route) ==
    CASE route = ChatMessageRoute ->
           <<"chatRateLimit", "complianceMiddleware", "validateChatMessage">>
      [] route = GetConversationRoute -> <<"complianceMiddleware">>
      [] route = StatusRoute -> <<"complianceMiddleware">>
      [] route = HistoryRoute ->
           <<"complianceMiddleware", "validateConversationHistory">>
      [] route = SynthesizeRoute ->
           <<"voiceRateLimit", "complianceMiddleware", "validateVoiceSynthesis">>
      [] route = ChatAndSpeakRoute -> <<"voiceRateLimit", "complianceMiddleware">>
      [] route = ChatStatsRoute -> <<"complianceMiddleware">>
      [] route = VoiceStatsRoute -> <<"complianceMiddleware">>
      [] route = DetailedHealthRoute ->
           <<"healthCheckBypass", "complianceMiddleware", "validateHealthCheck">>
      [] route = ReadinessRoute -> <<"healthCheckBypass">>
      [] route = LivenessRoute -> <<"healthCheckBypass">>
      [] OTHER -> <<>>

\* the headers complianceMiddleware sets
ComplianceHeaders == {"X-Compliance-Level", "X-Service-Version", "X-Audit-Enabled"}

\* chatRateLimit: createRateLimit(300000, 50, ...)
ChatRateLimitMax == 50
\* voiceRateLimit: parseInt(process.env.RATE_LIMIT_VOICE_MAX_REQUESTS) || 10
VoiceRateLimitMax == 10

RateLimitMax(limiter) ==
    IF limiter = "chatRateLimit" THEN ChatRateLimitMax ELSE VoiceRateLimitMax

\* getVoiceSettings('medium'): the defaults overridden by the medium preset
MediumVoiceSettings == VoiceSettings(Num(75), Num(75), Num(0))

\* variant: the bounds 0 and 1 themselves are violations
validateVoiceSettings_Exclusive(settings) ==
    (IF settings.stability.defined
        /\ (settings.stability.value <= 0 \/ settings.stability.value >= 100)
     THEN <<"Stability must be between 0 and 1">> ELSE <<>>)
    \o (IF settings.similarityBoost.defined
           /\ (settings.similarityBoost.value <= 0
               \/ settings.similarityBoost.value >= 100)
        THEN <<"Similarity boost must be between 0 and 1">> ELSE <<>>)
    \o (IF settings.style.defined
           /\ (settings.style.value <= 0 \/ settings.style.value >= 100)
        THEN <<"Style must be between 0 and 1">> ELSE <<>>)

\* AIService.validateVoiceSettings: the list of violations
validateVoiceSettings(settings) ==
    (IF settings.stability.defined
        /\ (settings.stability.value < 0 \/ settings.stability.value > 100)
     THEN <<"Stability must be between 0 and 1">> ELSE <<>>)
    \o (IF settings.similarityBoost.defined
           /\ (settings.similarityBoost.value < 0 \/ settings.similarityBoost.value > 100)
        THEN <<"Similarity boost must be between 0 and 1">> ELSE <<>>)
    \o (IF settings.style.defined
           /\ (settings.style.value < 0 \/ settings.style.value > 100)
        THEN <<"Style must be between 0 and 1">> ELSE <<>>)

\* Joi: number().min(0).max(1).optional()
JoiUnitNumber(v) == ~v.defined \/ (v.value >= 0 /\ v.value <= 100)

\* voiceSynthesisSchema.validate(req.body) finds no error
voiceSynthesisSchema(body) ==
    /\ Len(body.text) >= 1
    /\ Len(body.text) <= 5000
    /\ body.voiceSettings.given =>
         /\ JoiUnitNumber(body.voiceSettings.stability)
         /\ JoiUnitNumber(body.voiceSettings.similarityBoost)
         /\ JoiUnitNumber(body.voiceSettings.style)

\* chatMessageSchema.validate(req.body) finds no error
chatMessageSchema(body) ==
    /\ body.message.str
    /\ Len(body.message.text) >= 1
    /\ Len(body.message.text) <= 2000

\* conversationHistorySchema.validate(req.query) finds no error: the schema
\* requires a UUID conversationId in the validated object itself, an integer
\* limit in 1..100 and an integer offset >= 0 (includeMetadata, a boolean that
\* only selects the fields shown, is left out)
conversationHistorySchema(query) ==
    /\ query.conversationId \in ConvIds
    /\ query.limit.defined => (query.limit.value >= 1 /\ query.limit.value <= 100)
    /\ query.offset.defined => query.offset.value >= 0

\* the defaults of conversationHistorySchema and of the history handler
DefaultHistoryLimit == 20
DefaultHistoryOffset == 0

\* the validStatuses of the status route
ValidStatuses == {"active", "paused", "completed", "archived"}

\* the bodies and path parameters the clients send on each route
HttpMessages == {Str("I need a House"), Str("")}
HttpVoiceSettings == {NoVoiceSettings, VoiceSettings(Num(50), Num(50), NoNum),
                      VoiceSettings(Num(150), NoNum, NoNum),
                      VoiceSettings(NoNum, NoNum, Num(-10))}

Bodies(route) ==
    CASE route = ChatMessageRoute ->
           {[NoBody EXCEPT !.message = m, !.conversationId = c] :
               m \in HttpMessages, c \in {NullId, "c1"}}
      [] route = GetConversationRoute ->
           {[NoBody EXCEPT !.conversationId = c] : c \in {"c1", "not-a-uuid"}}
      [] route = StatusRoute ->
           {[NoBody EXCEPT !.conversationId = c, !.status = st] :
               c \in {"c1"}, st \in {"paused", "deleted"}}
      [] route = HistoryRoute ->
           {[NoBody EXCEPT !.conversationId = "c1",
                           !.query = [conversationId |-> q, limit |-> l, offset |-> o]] :
               q \in {Undefined, "c1"}, l \in {NoNum, Num(0), Num(1)},
               o \in {NoNum, Num(1)}}
      [] route = SynthesizeRoute ->
           {[NoBody EXCEPT !.text = t, !.voiceSettings = v] :
               t \in {"hello", ""}, v \in HttpVoiceSettings}
      [] route = ChatAndSpeakRoute ->
           {[NoBody EXCEPT !.message = m, !.voiceSettings = v] :
               m \in HttpMessages, v \in HttpVoiceSettings}
      [] OTHER -> {NoBody}

\* res.status(code).json(...) or res.send(...)
Send(req, status) == [req EXCEPT !.pc = "sent", !.res.status = status]

\* next()
Forward(req) == [req EXCEPT !.at = @ + 1]

Running(r, name) ==
    /\ requests[r].pc = "chain"
    /\ requests[r].at <= Len(Chain(requests[r].route))
    /\ Chain(requests[r].route)[requests[r].at] = name

AtHandler(r, route) ==
    /\ requests[r].pc = "chain"
    /\ requests[r].route = route
    /\ requests[r].at = Len(Chain(route)) + 1

\* a request arrives; performanceMiddleware sets X-Request-ID; the router
\* picks the route
Arrive(r) ==
    /\ requests[r].pc = "idle"
    /\ arrived < MaxRequests
    /\ \E route \in Routes, client \in Clients :
         \E body \in Bodies(route) :
            requests' = [requests EXCEPT ![r] =
                           [IdleRequest EXCEPT !.pc = "chain", !.route = route,
                                               !.client = client, !.body = body,
                                               !.at = 1,
                                               !.res.headers = {"X-Request-ID"}]]
    /\ arrived' = arrived + 1
    /\ UNCHANGED <<managerVars, clockVars, gatewayVars, hits, voiceApiCalls, brokerVars>>

\* createRateLimit(windowMs, max, ...): the request is counted; beyond max the
\* handler answers 429, otherwise next()
RateLimitStep(r) ==
    /\ \E limiter \in Limiters :
         /\ Running(r, limiter)
         /\ LET n == hits[limiter][requests[r].client] + 1
            IN  /\ hits' = [hits EXCEPT ![limiter][requests[r].client] = n]
                /\ requests' = [requests EXCEPT ![r] =
                      IF n > RateLimitMax(limiter)
                      THEN Send([@ EXCEPT !.hitNo = n], 429)
                      ELSE Forward([@ EXCEPT !.limited = TRUE, !.hitNo = n])]
    /\ UNCHANGED <<managerVars, clockVars, gatewayVars, voiceApiCalls, arrived,
                   brokerVars>>

\* the window of a limiter ends for a client: its count starts again
WindowElapsed ==
    /\ \E limiter \in Limiters, client \in Clients :
         /\ hits[limiter][client] > 0
         /\ hits' = [hits EXCEPT ![limiter][client] = 0]
    /\ UNCHANGED <<managerVars, clockVars, gatewayVars, requests, voiceApiCalls,
                   arrived, brokerVars>>

\* complianceMiddleware: three res.setHeader, then next()
ComplianceStep(r) ==
    /\ Running(r, "complianceMiddleware")
    /\ requests' = [requests EXCEPT ![r] =
                      Forward([@ EXCEPT !.res.headers = @ \cup ComplianceHeaders])]
    /\ UNCHANGED <<managerVars, clockVars, gatewayVars, hits, voiceApiCalls, arrived,
                   brokerVars>>

\* createValidationMiddleware(schema): 400 on a validation error, else next()
ValidateStep(r) ==
    /\ \/ /\ Running(r, "validateChatMessage")
          /\ requests' = [requests EXCEPT ![r] =
                IF chatMessageSchema(@.body) THEN Forward(@) ELSE Send(@, 400)]
       \/ /\ Running(r, "validateVoiceSynthesis")
          /\ requests' = [requests EXCEPT ![r] =
                IF voiceSynthesisSchema(@.body) THEN Forward(@) ELSE Send(@, 400)]
       \/ /\ Running(r, "validateHealthCheck")
          /\ requests' = [requests EXCEPT ![r] = Forward(@)]
       \/ /\ Running(r, "validateConversationHistory")
          /\ requests' = [requests EXCEPT ![r] =
                IF conversationHistorySchema(@.body.query) THEN Forward(@)
                ELSE Send(@, 400)]
    /\ UNCHANGED <<managerVars, clockVars, gatewayVars, hits, voiceApiCalls, arrived,
                   brokerVars>>

\* healthCheckBypass: next() on either branch
HealthCheckBypassStep(r) ==
    /\ Running(r, "healthCheckBypass")
    /\ requests' = [requests EXCEPT ![r] = Forward(@)]
    /\ UNCHANGED <<managerVars, clockVars, gatewayVars, hits, voiceApiCalls, arrived,
                   brokerVars>>

\* notFoundHandler: no route matched
NotFoundStep(r) ==
    /\ AtHandler(r, UnknownRoute)
    /\ requests' = [requests EXCEPT ![r] = Send(@, 404)]
    /\ UNCHANGED <<managerVars, clockVars, gatewayVars, hits, voiceApiCalls, arrived,
                   brokerVars>>

\* ELEVENLABS_CONFIG.defaultSettings with the environment unset
DefaultVoiceSettings == VoiceSettings(Num(75), Num(75), Num(0))

\* synthesizeVoice: the voice_settings of the request it posts to the voice
\* API, settings = voiceSettings || ELEVENLABS_CONFIG.defaultSettings
synthesizeVoiceRequest(voiceSettings) ==
    IF voiceSettings.given THEN voiceSettings ELSE DefaultVoiceSettings

\* the routes' finalVoiceSettings = voiceSettings || getVoiceSettings('medium')
finalVoiceSettings(body) ==
    IF body.voiceSettings.given THEN body.voiceSettings ELSE MediumVoiceSettings

\* the call a processChatMessage(message, conversationId, userId, context)
\* begins with: the locals of the task before its first await
EnterChat(message, conversationId, userId, context) ==
    [IdleTask EXCEPT !.pc = IF conversationId # NullId THEN "getConversation"
                            ELSE "createConversation",
                     !.message = message, !.conversationId = conversationId,
                     !.userId = userId, !.context = context]

\* POST /message handler: await aiService.processChatMessage(...)
ChatMessageHandler(r) ==
    /\ AtHandler(r, ChatMessageRoute)
    /\ tasks[r].pc = "idle"
    /\ requests' = [requests EXCEPT ![r] = [@ EXCEPT !.pc = "chat",
                                                    !.serviceCalls = @ + 1]]
    /\ tasks' = [tasks EXCEPT ![r] =
                   EnterChat(requests[r].body.message, requests[r].body.conversationId,
                             requests[r].body.userId, "{}")]
    /\ requestCount' = [requestCount EXCEPT ![ChatService] = @ + 1]
    /\ obs' = [obs EXCEPT ![r] = NoObs]
    /\ UNCHANGED <<conversations, messages, maxConversationLength, scenario,
                   directWrites, lastCall, addLog, clockVars, gatewayVars, hits,
                   voiceApiCalls, arrived, brokerVars>>

\* POST /message handler after the await: res.json(...) or the catch's 500
ChatMessageRespond(r) ==
    /\ requests[r].pc = "chat"
    /\ requests[r].route = ChatMessageRoute
    /\ tasks[r].pc \in {"done", "failed"}
    /\ requests' = [requests EXCEPT ![r] =
                      Send(@, IF tasks[r].pc = "done" THEN 200 ELSE 500)]
    /\ tasks' = [tasks EXCEPT ![r] = IdleTask]
    /\ obs' = [obs EXCEPT ![r] = NoObs]
    /\ UNCHANGED <<conversations, messages, maxConversationLength, requestCount,
                   scenario, directWrites, lastCall, addLog, clockVars, gatewayVars,
                   hits, voiceApiCalls, arrived, brokerVars>>

\* POST /chat-and-speak handler: the message check, then processChatMessage
ChatAndSpeakHandler(r) ==
    /\ AtHandler(r, ChatAndSpeakRoute)
    /\ tasks[r].pc = "idle"
    /\ LET message == requests[r].body.message
           empty == ~message.str \/ Len(message.text) = 0
       IN  /\ requests' = [requests EXCEPT ![r] =
                 IF empty THEN Send(@, 400)
                 ELSE [@ EXCEPT !.pc = "chat", !.serviceCalls = @ + 1]]
           /\ tasks' = IF empty THEN tasks
                       ELSE [tasks EXCEPT ![r] =
                               EnterChat(message, requests[r].body.conversationId,
                                         requests[r].body.userId, "{}")]
           /\ requestCount' = IF empty THEN requestCount
                              ELSE [requestCount EXCEPT ![VoiceService] = @ + 1]
    /\ obs' = [obs EXCEPT ![r] = NoObs]
    /\ UNCHANGED <<conversations, messages, maxConversationLength, scenario,
                   directWrites, lastCall, addLog, clockVars, gatewayVars, hits,
                   voiceApiCalls, arrived, brokerVars>>

\* POST /chat-and-speak handler after processChatMessage: the catch's 500, or
\* await aiService.synthesizeVoice(chatResult.response, voiceId,
\* finalVoiceSettings, ...), which posts to the voice API
ChatAndSpeakSynthesize(r) ==
    /\ requests[r].pc = "chat"
    /\ requests[r].route = ChatAndSpeakRoute
    /\ tasks[r].pc \in {"done", "failed"}
    /\ requests' = [requests EXCEPT ![r] =
                      IF tasks[r].pc = "failed" THEN Send(@, 500)
                      ELSE [@ EXCEPT !.pc = "voice", !.voiceCalled = TRUE,
                                     !.serviceCalls = @ + 1]]
    /\ voiceApiCalls' =
          IF tasks[r].pc = "failed" THEN voiceApiCalls
          ELSE voiceApiCalls
                  \cup {synthesizeVoiceRequest(finalVoiceSettings(requests[r].body))}
    /\ tasks' = [tasks EXCEPT ![r] = IdleTask]
    /\ obs' = [obs EXCEPT ![r] = NoObs]
    /\ UNCHANGED <<conversations, messages, maxConversationLength, requestCount,
                   scenario, directWrites, lastCall, addLog, clockVars, gatewayVars,
                   hits, arrived, brokerVars>>

\* POST /synthesize handler: validateVoiceSettings when settings are given,
\* then await aiService.synthesizeVoice(text, voiceId, finalVoiceSettings, ...)
SynthesizeHandler(r) ==
    /\ AtHandler(r, SynthesizeRoute)
    /\ LET body == requests[r].body
           invalid == body.voiceSettings.given
                         /\ Len(validateVoiceSettings(body.voiceSettings)) > 0
       IN  /\ requests' = [requests EXCEPT ![r] =
                 IF invalid THEN Send(@, 400)
                 ELSE [@ EXCEPT !.pc = "voice", !.voiceCalled = TRUE,
                                !.serviceCalls = @ + 1]]
           /\ voiceApiCalls' =
                 IF invalid THEN voiceApiCalls
                 ELSE voiceApiCalls \cup {synthesizeVoiceRequest(finalVoiceSettings(body))}
    /\ UNCHANGED <<managerVars, clockVars, gatewayVars, hits, arrived, brokerVars>>

\* the voice API answers or fails: the audio is sent, or the catch's 500
VoiceRespond(r) ==
    /\ requests[r].pc = "voice"
    /\ \E ok \in BOOLEAN :
         requests' = [requests EXCEPT ![r] = Send(@, IF ok THEN 200 ELSE 500)]
    /\ UNCHANGED <<managerVars, clockVars, gatewayVars, hits, voiceApiCalls, arrived,
                   brokerVars>>

\* GET /conversation/:conversationId handler: 400 on a malformed id, then
\* await conversationManager.getConversation: 404, 200 or the catch's 500
GetConversationHandler(r) ==
    /\ AtHandler(r, GetConversationRoute)
    /\ \E ok \in BOOLEAN :
         LET id == requests[r].body.conversationId
         IN  requests' = [requests EXCEPT ![r] =
                IF id \notin ConvIds THEN Send(@, 400)
                ELSE Send([@ EXCEPT !.serviceCalls = @ + 1, !.dbFailed = ~ok],
                          IF ~ok THEN 500
                          ELSE IF getConversation(conversations, id) = Null THEN 404
                          ELSE 200)]
    /\ UNCHANGED <<managerVars, clockVars, gatewayVars, hits, voiceApiCalls, arrived,
                   brokerVars>>

\* GET /conversation/:conversationId/history handler: await
\* conversationManager.getConversationHistory(conversationId,
\* parseInt(limit) || 20, parseInt(offset) || 0): 200 or the catch's 500
HistoryHandler(r) ==
    /\ AtHandler(r, HistoryRoute)
    /\ \E ok \in BOOLEAN :
         LET query == requests[r].body.query
             limit == IF query.limit.defined /\ query.limit.value # 0
                      THEN query.limit.value ELSE DefaultHistoryLimit
             offset == IF query.offset.defined /\ query.offset.value # 0
                       THEN query.offset.value ELSE DefaultHistoryOffset
         IN  requests' = [requests EXCEPT ![r] =
                IF ok
                THEN Send([@ EXCEPT !.serviceCalls = @ + 1,
                                    !.history = getConversationHistory(
                                        messages, maxConversationLength,
                                        requests[r].body.conversationId, limit, offset)],
                          200)
                ELSE Send([@ EXCEPT !.serviceCalls = @ + 1, !.dbFailed = TRUE], 500)]
    /\ UNCHANGED <<managerVars, clockVars, gatewayVars, hits, voiceApiCalls, arrived,
                   brokerVars>>

\* PUT /conversation/:conversationId/status handler: 400 on a status outside
\* validStatuses, then await conversationManager.updateConversationStatus:
\* 200 or the catch's 500
StatusHandler(r) ==
    /\ AtHandler(r, StatusRoute)
    /\ \E ok \in BOOLEAN :
         LET id == requests[r].body.conversationId
             status == requests[r].body.status
             u == updateConversationStatus(conversations, id, status, NoMetadata, ok)
         IN  IF status \notin ValidStatuses
             THEN /\ requests' = [requests EXCEPT ![r] = Send(@, 400)]
                  /\ UNCHANGED conversations
             ELSE /\ requests' = [requests EXCEPT ![r] =
                        Send([@ EXCEPT !.serviceCalls = @ + 1, !.dbFailed = ~ok],
                             IF u.error = "" THEN 200 ELSE 500)]
                  /\ conversations' = u.conversations
    /\ UNCHANGED <<messages, maxConversationLength, requestCount, tasks, obs, scenario,
                   directWrites, lastCall, addLog, clockVars, gatewayVars, hits,
                   voiceApiCalls, arrived, brokerVars>>

\* the aiService of the module a stats route is defined in
ServiceOf(route) ==
    CASE route = ChatStatsRoute -> ChatService
      [] route = VoiceStatsRoute -> VoiceService
      [] route = DetailedHealthRoute -> HealthService

\* GET /api/chat/stats, GET /api/voice/stats and GET /api/health/detailed
\* handlers: aiService.getServiceStats().requestCount of the module's own
\* aiService; the detailed health check answers 200 or 503 with it
StatsHandler(r) ==
    /\ \E route \in StatsRoutes :
         /\ AtHandler(r, route)
         /\ \E healthy \in BOOLEAN :
              requests' = [requests EXCEPT ![r] =
                 Send([@ EXCEPT !.reported = requestCount[ServiceOf(route)]],
                      IF healthy \/ route # DetailedHealthRoute THEN 200 ELSE 503)]
    /\ UNCHANGED <<managerVars, clockVars, gatewayVars, hits, voiceApiCalls, arrived,
                   brokerVars>>

\* GET /readiness handler: database.isConnected() and a valid configuration
ReadinessHandler(r) ==
    /\ AtHandler(r, ReadinessRoute)
    /\ \E configurationValid \in BOOLEAN :
         requests' = [requests EXCEPT ![r] =
                        Send(@, IF isConnected /\ configurationValid THEN 200 ELSE 503)]
    /\ UNCHANGED <<managerVars, clockVars, gatewayVars, hits, voiceApiCalls, arrived,
                   brokerVars>>

\* GET /liveness handler: heapUsed below 512 MB or not
LivenessHandler(r) ==
    /\ AtHandler(r, LivenessRoute)
    /\ \E isAlive \in BOOLEAN :
         requests' = [requests EXCEPT ![r] = Send(@, IF isAlive THEN 200 ELSE 503)]
    /\ UNCHANGED <<managerVars, clockVars, gatewayVars, hits, voiceApiCalls, arrived,
                   brokerVars>>

\* the response has gone out: the request is over
Complete(r) ==
    /\ requests[r].pc = "sent"
    /\ requests' = [requests EXCEPT ![r] = IdleRequest]
    /\ UNCHANGED <<managerVars, clockVars, gatewayVars, hits, voiceApiCalls, arrived,
                   brokerVars>>

(***************************************************************************)
(* The persistence gateway: connect, executeQuery, close and the events    *)
(* of a pool.  pools[p] is the state of the p-th pool created with         *)
(* new sql.ConnectionPool; connectionPool is the index of the pool the     *)
(* module variable refers to.                                              *)
(***************************************************************************)

\* the pools that hold or are acquiring connections
LivePools == {p \in DOMAIN pools : pools[p] \in {"connecting", "open"}}

\* connect() from `connectionPool = new sql.ConnectionPool(DB_CONFIG)` up to
\* `await connectionPool.connect()`: the variable now refers to the new pool
connect(c, op) ==
    /\ pools' = Append(pools, "connecting")
    /\ connectionPool' = Len(pools) + 1
    /\ callers' = [callers EXCEPT ![c] =
                     [pc |-> "awaitConnect", op |-> op, pool |-> Len(pools) + 1]]

\* executeQuery up to its first await: `if (!isConnected || !connectionPool)
\* await connect()`, and connect() up to its own first await (already
\* connected cannot hold there; validateConfig may throw); otherwise the
\* request is made on the current pool
ExecuteQueryCall(c) ==
    /\ callers[c].pc = "idle"
    /\ IF ~isConnected \/ connectionPool = NoPool
       THEN /\ Len(pools) < MaxPools
            /\ \E configured \in BOOLEAN :
                 IF configured THEN connect(c, "executeQuery")
                 ELSE UNCHANGED <<pools, connectionPool, callers>>
       ELSE /\ callers' = [callers EXCEPT ![c] =
                             [pc |-> "query", op |-> "executeQuery",
                              pool |-> connectionPool]]
            /\ UNCHANGED <<pools, connectionPool>>
    /\ UNCHANGED <<isConnected, validated, managerVars, clockVars, httpVars, brokerVars>>

\* a direct connect() (server initialisation): returns the pool when already
\* connected, otherwise creates one
ConnectCall(c) ==
    /\ callers[c].pc = "idle"
    /\ IF isConnected /\ connectionPool # NoPool
       THEN UNCHANGED <<pools, connectionPool, callers>>
       ELSE /\ Len(pools) < MaxPools
            /\ \E configured \in BOOLEAN :
                 IF configured THEN connect(c, "connect")
                 ELSE UNCHANGED <<pools, connectionPool, callers>>
    /\ UNCHANGED <<isConnected, validated, managerVars, clockVars, httpVars, brokerVars>>

\* `await connectionPool.connect()` settles: isConnected = true and
\* testConnection() makes its request on the pool connectionPool refers to
\* now; or the connect is rejected (always so once the pool was closed) and
\* connect() throws
ConnectResolve(c) ==
    /\ callers[c].pc = "awaitConnect"
    /\ \E ok \in BOOLEAN :
         IF ok /\ pools[callers[c].pool] = "connecting"
         THEN /\ pools' = [pools EXCEPT ![callers[c].pool] = "open"]
              /\ isConnected' = TRUE
              /\ callers' = [callers EXCEPT ![c] =
                               [@ EXCEPT !.pc = "awaitTest", !.pool = connectionPool]]
         ELSE /\ pools' = [pools EXCEPT ![callers[c].pool] =
                             IF @ = "connecting" THEN "failed" ELSE @]
              /\ callers' = [callers EXCEPT ![c] = IdleCaller]
              /\ UNCHANGED isConnected
    /\ UNCHANGED <<connectionPool, validated, managerVars, clockVars, httpVars,
                   brokerVars>>

\* `await testConnection()` settles: connect() returns connectionPool (and
\* executeQuery makes its request on it), or throws
TestResolve(c) ==
    /\ callers[c].pc = "awaitTest"
    /\ \E ok \in BOOLEAN :
         LET tested == callers[c].pool
             passed == ok /\ tested # NoPool /\ pools[tested] = "open"
         IN  /\ validated' = IF passed THEN validated \cup {tested} ELSE validated
             /\ callers' = [callers EXCEPT ![c] =
                   IF passed /\ callers[c].op = "executeQuery" /\ connectionPool # NoPool
                   THEN [@ EXCEPT !.pc = "query", !.pool = connectionPool]
                   ELSE IdleCaller]
    /\ UNCHANGED <<connectionPool, isConnected, pools, managerVars, clockVars,
                   httpVars, brokerVars>>

\* `await request.query(query)` settles: executeQuery returns or throws
QueryResolve(c) ==
    /\ callers[c].pc = "query"
    /\ callers' = [callers EXCEPT ![c] = IdleCaller]
    /\ UNCHANGED <<connectionPool, isConnected, pools, validated, managerVars,
                   clockVars, httpVars, brokerVars>>

\* the 'error' event of a pool: its listener sets isConnected = false and
\* leaves the pool as it is
PoolError(p) ==
    /\ p \in DOMAIN pools
    /\ pools[p] = "open"
    /\ isConnected' = FALSE
    /\ UNCHANGED <<connectionPool, pools, callers, validated, managerVars, clockVars,
                   httpVars, brokerVars>>

\* close() up to `await connectionPool.close()`: the pool closes and its
\* 'close' listener sets isConnected = false
CloseCall(c) ==
    /\ callers[c].pc = "idle"
    /\ connectionPool # NoPool
    /\ pools' = [pools EXCEPT ![connectionPool] = "closed"]
    /\ isConnected' = FALSE
    /\ callers' = [callers EXCEPT ![c] =
                     [pc |-> "awaitClose", op |-> "close", pool |-> connectionPool]]
    /\ UNCHANGED <<connectionPool, validated, managerVars, clockVars, httpVars,
                   brokerVars>>

\* close() after the await: connectionPool = null; isConnected = false
CloseResolve(c) ==
    /\ callers[c].pc = "awaitClose"
    /\ connectionPool' = NoPool
    /\ isConnected' = FALSE
    /\ callers' = [callers EXCEPT ![c] = IdleCaller]
    /\ UNCHANGED <<pools, validated, managerVars, clockVars, httpVars, brokerVars>>

(***************************************************************************)
(* BrokerService.getMarketAnalysis over the Properties table.  A row keeps *)
(* the columns the query reads; recent says listing_date is within the     *)
(* last six months.  Square footage and days on market are left out.       *)
(***************************************************************************)

PropertyRows ==
    [city : {"Austin", "Dallas"}, state : {"TX"}, zip_code : {"73301"},
     property_type : {"residential", "commercial"}, listing_price : {100, 301},
     status : {"active", "sold"}, recent : BOOLEAN, agent_id : {"a1"}]

Locations == {"Austin", "TX", "Boston"}
PropertyTypes == {"residential", "commercial"}

\* text LIKE '%' + pattern + '%'
Like(text, pattern) ==
    \E i \in 1..(Len(text) - Len(pattern) + 1) :
       SubSeq(text, i, i + Len(pattern) - 1) = pattern

\* the rows the WHERE clause of the market-analysis query selects
MarketRows(props, location, propertyType) ==
    {i \in DOMAIN props :
        /\ \/ Like(props[i].city, location)
           \/ Like(props[i].state, location)
           \/ Like(props[i].zip_code, location)
        /\ props[i].property_type = propertyType
        /\ props[i].recent}

RECURSIVE SumPrice(_, _)
SumPrice(props, rows) ==
    IF rows = {} THEN 0
    ELSE LET i == CHOOSE x \in rows : TRUE
         IN  props[i].listing_price + SumPrice(props, rows \ {i})

MinPrice(props, rows) ==
    CHOOSE m \in {props[i].listing_price : i \in rows} :
       \A i \in rows : m <= props[i].listing_price
MaxPrice(props, rows) ==
    CHOOSE m \in {props[i].listing_price : i \in rows} :
       \A i \in rows : m >= props[i].listing_price

\* Math.round of a quotient of naturals
RoundDiv(a, b) == (2 * a + b) \div (2 * b)

\* Math.round(x) of a column that may be NULL: Math.round(null) is 0
Round(n) == IF n.defined THEN n.value ELSE 0

\* the recordset of the query: an aggregate SELECT without GROUP BY returns one
\* row whatever the WHERE clause selects; over no row COUNT is 0 and AVG, MIN
\* and MAX are NULL.  avg_price is kept rounded.
MarketQuery(props, location, propertyType) ==
    LET rows == MarketRows(props, location, propertyType)
        n == Cardinality(rows)
    IN  <<[total_listings |-> n,
           avg_price |-> IF n = 0 THEN NoNum ELSE Num(RoundDiv(SumPrice(props, rows), n)),
           min_price |-> IF n = 0 THEN NoNum ELSE Num(MinPrice(props, rows)),
           max_price |-> IF n = 0 THEN NoNum ELSE Num(MaxPrice(props, rows)),
           sold_count |-> Cardinality({i \in rows : props[i].status = "sold"}),
           active_count |-> Cardinality({i \in rows : props[i].status = "active"})]>>

NoMarketData == "No market data found for the specified location"

\* getMarketAnalysis(location, propertyType); ok says the query succeeds
getMarketAnalysis(props, location, propertyType, ok) ==
    LET recordset == MarketQuery(props, location, propertyType)
        data == recordset[1]
    IN  IF ~ok THEN [threw |-> TRUE, error |-> "query failed", result |-> Null]
        ELSE IF Len(recordset) = 0
        THEN [threw |-> TRUE, error |-> NoMarketData, result |-> Null]
        ELSE [threw |-> FALSE, error |-> "",
              result |->
                 [location |-> location, propertyType |-> propertyType,
                  totalListings |-> data.total_listings,
                  average |-> Round(data.avg_price),
                  minimum |-> data.min_price, maximum |-> data.max_price,
                  soldProperties |-> data.sold_count,
                  activeListings |-> data.active_count,
                  absorptionRate |->
                     IF data.total_listings > 0
                     THEN RoundDiv(data.sold_count * 100, data.total_listings)
                     ELSE 0]]

\* a property is listed (by another system writing the Properties table)
ListProperty ==
    /\ Len(properties) < MaxProperties
    /\ \E row \in PropertyRows : properties' = Append(properties, row)
    /\ UNCHANGED <<managerVars, clockVars, gatewayVars, httpVars, showings, scheduling>>

\* a call of getMarketAnalysis(location, propertyType)
GetMarketAnalysisCall ==
    /\ directWrites < MaxBrokerCalls
    /\ \E location \in Locations, propertyType \in PropertyTypes, ok \in BOOLEAN :
         LET a == getMarketAnalysis(properties, location, propertyType, ok)
         IN  lastCall' = [op |-> "getMarketAnalysis", seq |-> directWrites + 1,
                          location |-> location, propertyType |-> propertyType,
                          ok |-> ok, threw |-> a.threw, error |-> a.error,
                          result |-> a.result]
    /\ directWrites' = directWrites + 1
    /\ UNCHANGED <<conversations, messages, maxConversationLength, requestCount, tasks,
                   obs, scenario, addLog, clockVars, gatewayVars, httpVars, brokerVars>>

(***************************************************************************)
(* BrokerService.scheduleShowing.  property_id is the position of the row  *)
(* in properties; the call awaits the SELECT, then the INSERT.             *)
(***************************************************************************)

\* the rows the showings are scheduled on
ShowingProperties ==
    [city : {"Austin"}, state : {"TX"}, zip_code : {"73301"},
     property_type : {"residential"}, listing_price : {100},
     status : {"active", "pending", "sold"}, recent : {TRUE}, agent_id : {"a1", "a2"}]

PropertyIds == 1..(MaxProperties + 1)

NotAvailable == "Property not found or not available for showing"

\* the recordset of propertyQuery: WHERE property_id = @propertyId AND
\* status IN ('active', 'pending')
propertyQuery(props, propertyId) ==
    IF propertyId \in DOMAIN props /\ props[propertyId].status \in {"active", "pending"}
    THEN <<props[propertyId]>>
    ELSE <<>>

\* scheduleShowing up to the INSERT: the SELECT, the throw on an empty
\* recordset; ok says the query succeeds
ScheduleShowingCall ==
    /\ scheduling.pc = "idle"
    /\ directWrites < MaxShowingCalls
    /\ \E propertyId \in PropertyIds, ok \in BOOLEAN :
         LET recordset == propertyQuery(properties, propertyId)
         IN  IF ok /\ Len(recordset) > 0
             THEN /\ scheduling' = [pc |-> "insert", propertyId |-> propertyId,
                                    agentId |-> recordset[1].agent_id]
                  /\ lastCall' = [op |-> "scheduleShowing", seq |-> directWrites + 1,
                                  propertyId |-> propertyId, settled |-> FALSE,
                                  threw |-> FALSE, error |-> ""]
             ELSE /\ scheduling' = IdleScheduling
                  /\ lastCall' = [op |-> "scheduleShowing", seq |-> directWrites + 1,
                                  propertyId |-> propertyId, settled |-> TRUE,
                                  threw |-> TRUE,
                                  error |-> IF ok THEN NotAvailable ELSE "query failed"]
    /\ directWrites' = directWrites + 1
    /\ UNCHANGED <<conversations, messages, maxConversationLength, requestCount, tasks,
                   obs, scenario, addLog, clockVars, gatewayVars, httpVars, properties,
                   showings>>

\* scheduleShowing from the INSERT on: the row carries the agent_id read by
\* the SELECT; ok says the insert succeeds
ScheduleShowingInsert ==
    /\ scheduling.pc = "insert"
    /\ \E ok \in BOOLEAN :
         /\ showings' =
               IF ok
               THEN Append(showings, [showing_id |-> Len(showings) + 1,
                                      property_id |-> scheduling.propertyId,
                                      agent_id |-> scheduling.agentId,
                                      status |-> "requested"])
               ELSE showings
         /\ lastCall' = [lastCall EXCEPT !.settled = TRUE, !.threw = ~ok,
                                         !.error = IF ok THEN "" ELSE "query failed"]
    /\ scheduling' = IdleScheduling
    /\ UNCHANGED <<conversations, messages, maxConversationLength, requestCount, tasks,
                   obs, scenario, directWrites, addLog, clockVars, gatewayVars, httpVars,
                   properties>>

\* a listed property is sold (by whoever maintains the Properties table)
SellProperty ==
    /\ \E i \in DOMAIN properties :
         /\ properties[i].status \in {"active", "pending"}
         /\ properties' = [properties EXCEPT ![i].status = "sold"]
    /\ UNCHANGED <<managerVars, clockVars, gatewayVars, httpVars, showings, scheduling>>

\* the numbers a settings field is given, in hundredths: below, at and above
\* each bound
VoiceValues == {NoNum} \cup {Num(v) : v \in {-1, 0, 50, 100, 101, 150}}
SettingsInputs ==
    {VoiceSettings(a, b, c) : a \in VoiceValues, b \in VoiceValues, c \in VoiceValues}

\* a call of validateVoiceSettings(settings); the function only reads its
\* argument, which is the same object afterwards
ValidateVoiceSettingsCall ==
    /\ \E settings \in SettingsInputs :
         lastCall' = [op |-> "validateVoiceSettings", settings |-> settings,
                      after |-> settings, result |-> validateVoiceSettings(settings)]
    /\ UNCHANGED <<conversations, messages, maxConversationLength, requestCount, tasks,
                   obs, scenario, directWrites, addLog, clockVars, gatewayVars, httpVars,
                   brokerVars>>

(***************************************************************************)
(* Specifications.                                                         *)
(*   Spec     : concurrent processChatMessage calls next to direct writes  *)
(*   SpecRead : one client calling the conversation manager sequentially   *)
(*   SpecChat : processChatMessage calls over the classifier's inputs      *)
(***************************************************************************)
Next ==
    \/ \E t \in Tasks : Start(t)
    \/ \E t \in Tasks : GetConversationStep(t)
    \/ \E t \in Tasks : BuildContextStep(t)
    \/ \E t \in Tasks : CreateConversationStep(t)
    \/ \E t \in Tasks : AddUserStep(t)
    \/ \E t \in Tasks : GenerateStep(t)
    \/ \E t \in Tasks : AddAssistantStep(t)
    \/ \E t \in Tasks : Finish(t)
    \/ AddMessageCall
    \/ UpdateConversationStatusCall

Spec == Init /\ [][Next]_vars

\* contents the sequential client appends
ReadInputs == {ChatInput(Str("abcd"), "u1", "{}"), ChatInput(Str("abcde"), NoUser, "{}")}

InitRead ==
    /\ InitCommon
    /\ \E env \in MemoryLimitEnv : maxConversationLength = ParseMemoryLimit(env)
    /\ scenario = [inputs |-> ReadInputs, roles |-> {"user"}, statuses |-> {"deleted"},
                   metas |-> {NoMetadata}, calls |-> 0, writes |-> MaxSeqWrites]

NextRead ==
    \/ CreateConversationCall
    \/ AddMessageCall
    \/ GetConversationCall
    \/ GetConversationHistoryCall
    \/ BuildConversationContextCall

SpecRead == InitRead /\ [][NextRead]_vars

\* conversations the administrative client creates, and how it updates them
AdminInputs == {ChatInput(Str("abcd"), "u1", "{}"), ChatInput(Str("abcd"), NoUser, "{}")}

InitAdmin ==
    /\ InitManager
    /\ now = 0
    /\ ticks = 0
    /\ \E env \in RetentionEnv : dataRetentionDays = ParseRetentionDays(env)
    /\ InitGateway
    /\ InitHttp
    /\ InitBroker
    /\ maxConversationLength = ParseMemoryLimit("unset")
    /\ scenario = [inputs |-> AdminInputs, roles |-> {"user"},
                   statuses |-> {"paused"}, metas |-> {NoMetadata, "{m}"},
                   calls |-> 0, writes |-> MaxAdminWrites]

NextAdmin ==
    \/ CreateConversationCall
    \/ AddMessageCall
    \/ UpdateConversationStatusCall
    \/ CleanupOldConversationsCall
    \/ GetConversationCall
    \/ GetUserConversationsCall
    \/ Tick

SpecAdmin == InitAdmin /\ [][NextAdmin]_vars

\* the requests handled at a time
Slots == {"t1"}

\* the server after startup: the initial connect succeeded or failed (the
\* server starts either way), and each client has been counted by the
\* limiters either never or up to one below the maximum (by requests that
\* were answered 400, which leave no other trace)
InitHttpServer ==
    /\ InitManager
    /\ InitClock
    /\ \E connected \in BOOLEAN :
         /\ isConnected = connected
         /\ connectionPool = IF connected THEN 1 ELSE NoPool
         /\ pools = IF connected THEN <<"open">> ELSE <<>>
         /\ validated = IF connected THEN {1} ELSE {}
    /\ callers = [c \in Callers |-> IdleCaller]
    /\ requests = [r \in Tasks |-> IdleRequest]
    /\ \E near \in BOOLEAN :
         hits = [l \in Limiters |-> [a \in Clients |->
                    IF near THEN RateLimitMax(l) - 1 ELSE 0]]
    /\ voiceApiCalls = {}
    /\ arrived = 0
    /\ InitBroker
    /\ maxConversationLength = ParseMemoryLimit("unset")
    /\ scenario = [inputs |-> {}, roles |-> {}, statuses |-> {}, metas |-> {},
                   calls |-> 0, writes |-> 0]

NextHttp ==
    \/ \E r \in Slots : Arrive(r)
    \/ \E r \in Slots : RateLimitStep(r)
    \/ WindowElapsed
    \/ \E r \in Slots : ComplianceStep(r)
    \/ \E r \in Slots : ValidateStep(r)
    \/ \E r \in Slots : HealthCheckBypassStep(r)
    \/ \E r \in Slots : NotFoundStep(r)
    \/ \E r \in Slots : ChatMessageHandler(r)
    \/ \E r \in Slots : ChatMessageRespond(r)
    \/ \E r \in Slots : ChatAndSpeakHandler(r)
    \/ \E r \in Slots : ChatAndSpeakSynthesize(r)
    \/ \E r \in Slots : SynthesizeHandler(r)
    \/ \E r \in Slots : VoiceRespond(r)
    \/ \E r \in Slots : GetConversationHandler(r)
    \/ \E r \in Slots : StatusHandler(r)
    \/ \E r \in Slots : HistoryHandler(r)
    \/ \E r \in Slots : StatsHandler(r)
    \/ \E r \in Slots : ReadinessHandler(r)
    \/ \E r \in Slots : LivenessHandler(r)
    \/ \E r \in Slots : Complete(r)
    \/ \E t \in Tasks : GetConversationStep(t)
    \/ \E t \in Tasks : BuildContextStep(t)
    \/ \E t \in Tasks : CreateConversationStep(t)
    \/ \E t \in Tasks : AddUserStep(t)
    \/ \E t \in Tasks : GenerateStep(t)
    \/ \E t \in Tasks : AddAssistantStep(t)

SpecHttp == InitHttpServer /\ [][NextHttp]_vars

\* the gateway module after it is loaded, with no request and no
\* conversation: only the callers of the gateway act
InitDb ==
    /\ InitCommon
    /\ maxConversationLength = ParseMemoryLimit("unset")
    /\ scenario = [inputs |-> {}, roles |-> {}, statuses |-> {}, metas |-> {},
                   calls |-> 0, writes |-> 0]

NextDb ==
    \/ \E c \in Callers : ExecuteQueryCall(c)
    \/ \E c \in Callers : ConnectCall(c)
    \/ \E c \in Callers : ConnectResolve(c)
    \/ \E c \in Callers : TestResolve(c)
    \/ \E c \in Callers : QueryResolve(c)
    \/ \E p \in 1..MaxPools : PoolError(p)
    \/ \E c \in Callers : CloseCall(c)
    \/ \E c \in Callers : CloseResolve(c)

SpecDb == InitDb /\ [][NextDb]_vars

\* a BrokerService over an empty Properties table
InitBrokerService ==
    /\ InitCommon
    /\ maxConversationLength = ParseMemoryLimit("unset")
    /\ scenario = [inputs |-> {}, roles |-> {}, statuses |-> {}, metas |-> {},
                   calls |-> 0, writes |-> 0]

NextBroker ==
    \/ ListProperty
    \/ GetMarketAnalysisCall

SpecBroker == InitBrokerService /\ [][NextBroker]_vars

\* a BrokerService over a Properties table of listed properties
InitShowing ==
    /\ InitManager
    /\ InitClock
    /\ InitGateway
    /\ InitHttp
    /\ properties \in [1..MaxProperties -> ShowingProperties]
    /\ showings = <<>>
    /\ scheduling = IdleScheduling
    /\ maxConversationLength = ParseMemoryLimit("unset")
    /\ scenario = [inputs |-> {}, roles |-> {}, statuses |-> {}, metas |-> {},
                   calls |-> 0, writes |-> 0]

NextShowing ==
    \/ ScheduleShowingCall
    \/ ScheduleShowingInsert
    \/ SellProperty

SpecShowing == InitShowing /\ [][NextShowing]_vars

\* an AIService whose validateVoiceSettings is called with any settings
InitVoice ==
    /\ InitCommon
    /\ maxConversationLength = ParseMemoryLimit("unset")
    /\ scenario = [inputs |-> {}, roles |-> {}, statuses |-> {}, metas |-> {},
                   calls |-> 0, writes |-> 0]

NextVoice == ValidateVoiceSettingsCall

SpecVoice == InitVoice /\ [][NextVoice]_vars

\* inputs that reach every branch of the classifier, and the paragraph the
\* keyword table of the specification assigns to each
ClassifierTable ==
    <<[input |-> ChatInput(Str("I need a House"), "u1", "{}"), expect |-> PropertyResponse],
      [input |-> ChatInput(Str("I need a House"), NoUser, "{urgency:high}"),
       expect |-> PropertyResponse],
      [input |-> ChatInput(Str("PRICE of a property?"), "u1", "{}"),
       expect |-> PropertyResponse],
      [input |-> ChatInput(Str("Market viewing"), NoUser, "{}"), expect |-> MarketResponse],
      [input |-> ChatInput(Str("schedule an agent"), "u1", "{}"),
       expect |-> ScheduleResponse],
      [input |-> ChatInput(Str("a REALTOR please"), "u1", "{}"), expect |-> AgentResponse],
      [input |-> ChatInput(Str("hello"), "u1", "{}"), expect |-> GreetingResponse]>>

ClassifierInputs == {ClassifierTable[i].input : i \in DOMAIN ClassifierTable}

InitChat ==
    /\ InitCommon
    /\ maxConversationLength = ParseMemoryLimit("2")
    /\ scenario = [inputs |-> ClassifierInputs, roles |-> {}, statuses |-> {},
                   metas |-> {}, calls |-> MaxCalls, writes |-> 0]

NextChat ==
    \/ \E t \in Tasks : Start(t)
    \/ \E t \in Tasks : GetConversationStep(t)
    \/ \E t \in Tasks : BuildContextStep(t)
    \/ \E t \in Tasks : CreateConversationStep(t)
    \/ \E t \in Tasks : AddUserStep(t)
    \/ \E t \in Tasks : GenerateStep(t)
    \/ \E t \in Tasks : AddAssistantStep(t)
    \/ \E t \in Tasks : Finish(t)

SpecChat == InitChat /\ [][NextChat]_vars

AddMessageThrows ==
    \/ \E t \in Tasks : /\ tasks[t].pc \in {"addUser", "addAssistant"}
                        /\ tasks'[t].pc = "failed"
    \/ /\ lastCall'.op = "addMessage"
       /\ lastCall'.seq # lastCall.seq
       /\ ~lastCall'.ok

C3_SequentialAdds ==
    LET id == lastCall.conversationId
        N == Len(addLog[id])
    IN  /\ (lastCall.op = "getConversation" /\ id \in DOMAIN conversations)
            => /\ lastCall.result # Null
               /\ lastCall.result.messageCount = N
        /\ (lastCall.op = "getConversationHistory" /\ id \in DOMAIN conversations
              /\ lastCall.offset = 0 /\ lastCall.limit >= N)
            => /\ Len(lastCall.result) = N
               /\ \A i \in 1..N :
                    /\ lastCall.result[i].role = addLog[id][i].role
                    /\ lastCall.result[i].content = addLog[id][i].content
                    /\ lastCall.result[i].tokenCount = addLog[id][i].tokenCount
               /\ \A i \in 1..(N - 1) :
                    lastCall.result[i].messageId < lastCall.result[i + 1].messageId

C3_Witness ==
    /\ lastCall.op = "getConversationHistory"
    /\ lastCall.conversationId \in DOMAIN conversations
    /\ lastCall.offset = 0
    /\ Len(addLog[lastCall.conversationId]) = 3
    /\ lastCall.limit >= 3
    /\ Len(lastCall.result) = 3
    /\ lastCall.result[1].content # lastCall.result[3].content

\* the rows a call found when it began: none for a conversation it created
RowsAtLoad(t) == IF obs[t].created THEN <<>> ELSE obs[t].msgsAtLoad

\* C4: a successful processChatMessage call during which no other call wrote
\* to its conversation leaves, after the rows it found, exactly its user
\* message followed by its assistant message, has raised message_count by 2,
\* and returns metadata.messageCount equal to the persisted count.
C4_SuccessfulCallAddsTwo ==
    \A t \in Tasks :
        (tasks[t].pc = "done" /\ ~obs[t].overlapped) =>
            LET before == RowsAtLoad(t)
                after == obs[t].msgsAtEnd
                n == Len(before)
            IN  /\ Len(after) = n + 2
                /\ SubSeq(after, 1, n) = before
                /\ after[n + 1].role = "user"
                /\ after[n + 1].content = tasks[t].message.text
                /\ after[n + 2].role = "assistant"
                /\ after[n + 2].content = tasks[t].result.response
                /\ obs[t].countAtEnd = tasks[t].conversation.messageCount + 2
                /\ tasks[t].result.metadata.messageCount = obs[t].countAtEnd

\* two such calls, one after the other, on one conversation: 0 -> 2 -> 4
C4_Witness ==
    \E t \in Tasks : \E u \in Tasks \ {t} :
        /\ tasks[t].pc = "done" /\ tasks[u].pc = "done"
        /\ ~obs[t].overlapped /\ ~obs[u].overlapped
        /\ tasks[t].conversationId = tasks[u].conversationId
        /\ obs[t].created
        /\ obs[t].countAtEnd = 2
        /\ obs[u].countAtEnd = 4
        /\ tasks[u].result.metadata.messageCount = 4

\* no row with this id, or a soft-deleted one
NoLiveRow(id) == id \notin DOMAIN conversations \/ conversations[id].status = "deleted"

\* C5: when processChatMessage is given a conversationId that has no live row,
\* its getConversation step ends the call in failure (not found, unless the
\* query itself failed) and changes neither table; a failed call takes no
\* further step on the store.
C5_NotFoundChangesNothing ==
    [][\A t \in Tasks :
          (/\ tasks[t].pc = "getConversation"
           /\ tasks'[t] # tasks[t]
           /\ NoLiveRow(tasks[t].conversationId))
          => /\ tasks'[t].pc = "failed"
             /\ tasks'[t].error \in {"Conversation not found", "PersistenceError"}
             /\ obs'[t].userPos = 0 /\ obs'[t].asstPos = 0 /\ ~obs'[t].created
             /\ UNCHANGED <<conversations, messages>>]_vars

C5_Witness ==
    \E t \in Tasks :
        /\ tasks[t].pc = "failed"
        /\ tasks[t].error = "Conversation not found"
        /\ tasks[t].conversationId \in DOMAIN conversations
        /\ conversations[tasks[t].conversationId].status = "deleted"

C7_ResponseFromMessageOnly ==
    \A t \in Tasks :
        (tasks[t].pc \in {"addAssistant", "done"} /\ tasks[t].message.str) =>
            \A i \in DOMAIN ClassifierTable :
                ClassifierTable[i].input.message = tasks[t].message =>
                    /\ tasks[t].aiResponse.content = ClassifierTable[i].expect
                    /\ tasks[t].pc = "done" =>
                         tasks[t].result.response = ClassifierTable[i].expect

C7_Witness ==
    \E t \in Tasks :
        /\ tasks[t].pc = "done"
        /\ tasks[t].message = Str("PRICE of a property?")
        /\ Len(obs[t].msgsAtLoad) >= 2
        /\ tasks[t].result.response = PropertyResponse
        /\ Includes(tasks[t].result.response, "property")

\* C8: when response generation raises, generateAIResponse returns the apology
\* flagged as an error; no processChatMessage call fails in its generation
\* step, and a call that completes has persisted the apology as its assistant
\* message.
C8_GenerationNeverFails ==
    \A t \in Tasks :
        /\ obs[t].failedAt # "generate"
        /\ tasks[t].error # "GenerationError"
        /\ obs[t].genRaised =>
             /\ tasks[t].pc \in {"addAssistant", "done", "failed"}
             /\ tasks[t].aiResponse.content = ErrorPrompt
             /\ tasks[t].aiResponse.error
             /\ tasks[t].pc = "failed" => obs[t].failedAt = "addAssistant"
             /\ tasks[t].pc = "done" =>
                  /\ tasks[t].result.response = ErrorPrompt
                  /\ messages[tasks[t].conversationId][obs[t].asstPos].role = "assistant"
                  /\ messages[tasks[t].conversationId][obs[t].asstPos].content = ErrorPrompt

C8_Witness ==
    \E t \in Tasks :
        /\ obs[t].genRaised
        /\ tasks[t].pc = "done"
        /\ ~tasks[t].message.str

\* the page of `rows` left after skipping the offset most recent rows and
\* taking the (at most) limit most recent of the rest, oldest first
PageOf(rows, limit, offset) ==
    LET hi == Len(rows) - offset
        lo == IF hi - limit + 1 > 1 THEN hi - limit + 1 ELSE 1
    IN  IF hi < 1 THEN <<>> ELSE SubSeq(rows, lo, hi)

SameMessages(result, rows) ==
    /\ Len(result) = Len(rows)
    /\ \A i \in 1..Len(rows) :
         /\ result[i].messageId = rows[i].message_id
         /\ result[i].role = rows[i].role
         /\ result[i].content = rows[i].content
         /\ result[i].tokenCount = rows[i].token_count

\* C9 as stated: getConversationHistory returns PageOf the conversation's rows
\* for the given limit, the configured memory limit standing in only when the
\* limit is omitted.
C9_PageAsStated ==
    lastCall.op = "getConversationHistory" =>
        SameMessages(lastCall.result,
                     PageOf(messages[lastCall.conversationId],
                            IF lastCall.limit = NullLimit
                            THEN maxConversationLength ELSE lastCall.limit,
                            lastCall.offset))

\* C9 amended: getConversationHistory returns PageOf the conversation's rows
\* for the given limit, the configured memory limit standing in when the limit
\* is omitted or 0.
C9_PageWithFalsyLimit ==
    lastCall.op = "getConversationHistory" =>
        SameMessages(lastCall.result,
                     PageOf(messages[lastCall.conversationId],
                            IF lastCall.limit = NullLimit \/ lastCall.limit = 0
                            THEN maxConversationLength ELSE lastCall.limit,
                            lastCall.offset))

C9_Witness ==
    /\ lastCall.op = "getConversationHistory"
    /\ Len(messages[lastCall.conversationId]) = 3
    /\ lastCall.limit = 0
    /\ lastCall.offset = 1
    /\ maxConversationLength = DefaultMemoryLimit
    /\ Len(lastCall.result) = 2

\* C10: buildConversationContext with includeSystemPrompt = true returns the
\* conversation system prompt followed by the min(maxConversationLength, n)
\* most recent of the conversation's n messages, oldest first, each with its
\* role and content, so one entry only when n = 0.
C10_ContextWindow ==
    (lastCall.op = "buildConversationContext" /\ lastCall.includeSystemPrompt) =>
        LET rows == messages[lastCall.conversationId]
            n == Len(rows)
            k == Min(maxConversationLength, n)
            result == lastCall.result
        IN  /\ Len(result) = k + 1
            /\ result[1] = [role |-> "system", content |-> Str(ConversationPrompt)]
            /\ \A i \in 1..k :
                 /\ result[i + 1].role = rows[n - k + i].role
                 /\ result[i + 1].content = Str(rows[n - k + i].content)

C10_Witness ==
    /\ lastCall.op = "buildConversationContext"
    /\ lastCall.includeSystemPrompt
    /\ Len(messages[lastCall.conversationId]) = 3
    /\ maxConversationLength = 2
    /\ Len(lastCall.result) = 3

\* a direct call of the conversation manager returns in this step
Returns(op) == lastCall'.op = op /\ lastCall'.seq # lastCall.seq

\* the conversations older than the retention period that are not deleted yet
Expired == {c \in DOMAIN conversations :
               /\ conversations[c].status # "deleted"
               /\ now - conversations[c].created_at > dataRetentionDays}

\* C11: a cleanupOldConversations call that returns sets status to deleted for
\* exactly the not-yet-deleted conversations created more than retentionDays
\* ago, leaves every other conversation and every message unchanged and
\* returns the number of conversations it changed; one that throws changes
\* nothing.
C11_CleanupDeletesExpired ==
    [][Returns("cleanupOldConversations") =>
         IF lastCall'.ok
         THEN /\ DOMAIN conversations' = DOMAIN conversations
              /\ \A c \in Expired :
                   conversations'[c] = [conversations[c] EXCEPT !.status = "deleted"]
              /\ \A c \in DOMAIN conversations \ Expired :
                   conversations'[c] = conversations[c]
              /\ lastCall'.result = Cardinality(Expired)
              /\ messages' = messages
         ELSE UNCHANGED <<conversations, messages>>]_vars

\* retention 90 days: the one created 91 days ago is deleted, the one created
\* 89 days ago is not
C11_Witness ==
    /\ lastCall.op = "cleanupOldConversations"
    /\ lastCall.ok
    /\ lastCall.result = 1
    /\ dataRetentionDays = 90
    /\ \E c \in DOMAIN conversations : \E d \in DOMAIN conversations \ {c} :
         /\ now - conversations[c].created_at = 91
         /\ conversations[c].status = "deleted"
         /\ now - conversations[d].created_at = 89
         /\ conversations[d].status = "active"

\* C12: getConversation returns null exactly when the id has no row or a
\* deleted one, and otherwise the row's current status and messageCount;
\* getUserConversations returns rows of the user that are not deleted only, so
\* a conversation cleanupOldConversations has soft-deleted is returned by
\* neither.
C12_DeletedAreHidden ==
    /\ lastCall.op = "getConversation" =>
         LET id == lastCall.conversationId
         IN  /\ (lastCall.result = Null) <=> NoLiveRow(id)
             /\ lastCall.result # Null =>
                  /\ lastCall.result.conversationId = id
                  /\ lastCall.result.status = conversations[id].status
                  /\ lastCall.result.messageCount = conversations[id].message_count
    /\ lastCall.op = "getUserConversations" =>
         /\ \A i \in 1..Len(lastCall.result) :
              LET id == lastCall.result[i].conversationId
              IN  /\ id \in DOMAIN conversations
                  /\ conversations[id].status # "deleted"
                  /\ conversations[id].user_id = lastCall.userId
                  /\ lastCall.result[i].status = conversations[id].status
                  /\ lastCall.result[i].messageCount = conversations[id].message_count
         /\ \A i, j \in 1..Len(lastCall.result) :
              lastCall.result[i].conversationId = lastCall.result[j].conversationId
                 => i = j

\* the user has two rows, one of them soft-deleted by the cleanup (no other
\* operation of this client deletes): the listing returns the other one only
C12_Witness ==
    /\ lastCall.op = "getUserConversations"
    /\ lastCall.offset = 0
    /\ lastCall.limit = 2
    /\ Len(lastCall.result) = 1
    /\ \E c \in DOMAIN conversations :
         /\ conversations[c].user_id = lastCall.userId
         /\ conversations[c].status = "deleted"
         /\ now - conversations[c].created_at > dataRetentionDays
         /\ getConversation(conversations, c) = Null

\* C13: updateConversationStatus on an id without a row fails (not found,
\* unless the statement itself failed) and changes nothing; a call that
\* succeeds sets the status of that row to the given value and leaves its
\* message_count, every other row and all messages unchanged; a call that
\* fails changes nothing.
C13_StatusUpdate ==
    [][Returns("updateConversationStatus") =>
         LET id == lastCall'.conversationId
         IN  /\ id \notin DOMAIN conversations =>
                  /\ ~lastCall'.ok
                  /\ lastCall'.error \in {"Conversation not found", "PersistenceError"}
             /\ (id \in DOMAIN conversations /\ ~lastCall'.ok) =>
                  lastCall'.error = "PersistenceError"
             /\ ~lastCall'.ok => UNCHANGED <<conversations, messages>>
             /\ lastCall'.ok =>
                  /\ id \in DOMAIN conversations
                  /\ DOMAIN conversations' = DOMAIN conversations
                  /\ conversations'[id].status = lastCall'.status
                  /\ conversations'[id].message_count = conversations[id].message_count
                  /\ conversations'[id].user_id = conversations[id].user_id
                  /\ conversations'[id].created_at = conversations[id].created_at
                  /\ \A c \in DOMAIN conversations \ {id} :
                       conversations'[c] = conversations[c]
                  /\ messages' = messages]_vars

C13_Witness ==
    /\ lastCall.op = "updateConversationStatus"
    /\ lastCall.ok
    /\ conversations[lastCall.conversationId].status = "paused"
    /\ conversations[lastCall.conversationId].message_count = 1
    /\ Len(messages[lastCall.conversationId]) = 1

\* C14: a createConversation call that succeeds adds exactly one row, under an
\* id no row had, with status active, message_count 0 and the given userId or
\* 'anonymous' as owner, and leaves the other rows and all messages unchanged;
\* a call that fails adds no row; either way the insert was sent once.
C14_CreateAddsOneRow ==
    [][Returns("createConversation") =>
         LET id == lastCall'.conversationId
         IN  /\ lastCall'.queries = 1
             /\ messages' = messages
             /\ IF lastCall'.ok
                THEN /\ id \notin DOMAIN conversations
                     /\ DOMAIN conversations' = DOMAIN conversations \cup {id}
                     /\ conversations'[id].status = "active"
                     /\ conversations'[id].message_count = 0
                     /\ conversations'[id].user_id =
                           IF lastCall'.userId = NoUser THEN "anonymous"
                           ELSE lastCall'.userId
                     /\ lastCall'.result.conversationId = id
                     /\ lastCall'.result.status = "active"
                     /\ lastCall'.result.messageCount = 0
                     /\ \A c \in DOMAIN conversations :
                          conversations'[c] = conversations[c]
                ELSE conversations' = conversations]_vars

C14_Witness ==
    /\ lastCall.op = "createConversation"
    /\ lastCall.ok
    /\ lastCall.userId = NoUser
    /\ conversations[lastCall.conversationId].user_id = "anonymous"
    /\ \E c \in DOMAIN conversations \ {lastCall.conversationId} :
         conversations[c].message_count = 1

\* the texts of every length up to that of the longest prompt
TextsByLength == {SubSeq(BasePrompt, 1, n) : n \in 0..Len(BasePrompt)}

\* C15: the token estimate of a text is the ceiling of its length over 4, and
\* the token count a completed processChatMessage call returns in its metadata
\* is the token_count persisted with its assistant message.
C15_TokenCountAsStated ==
    /\ \A text \in TextsByLength :
         LET e == estimateTokenCount(text)
         IN  4 * e >= Len(text) /\ 4 * (e - 1) < Len(text)
    /\ estimateTokenCount("") = 0
    /\ estimateTokenCount("abcd") = 1
    /\ estimateTokenCount("abcde") = 2
    /\ \A t \in Tasks :
         tasks[t].pc = "done" =>
            tasks[t].result.metadata.tokenCount =
               messages[tasks[t].conversationId][obs[t].asstPos].token_count

\* a voice-settings value is absent or within [0,1] (in hundredths)
InUnitRange(n) == ~n.defined \/ (n.value >= 0 /\ n.value <= 100)
AllInUnitRange(settings) ==
    /\ InUnitRange(settings.stability)
    /\ InUnitRange(settings.similarityBoost)
    /\ InUnitRange(settings.style)

\* C16: on both routes that reach synthesizeVoice, a request whose
\* voiceSettings has a value outside [0,1] never gets as far as the voice API,
\* and the voice API is never called with an out-of-range value.
C16_OutOfRangeNeverSynthesized ==
    /\ \A settings \in voiceApiCalls : AllInUnitRange(settings)
    /\ \A r \in Tasks :
         (/\ requests[r].route \in {SynthesizeRoute, ChatAndSpeakRoute}
          /\ ~AllInUnitRange(requests[r].body.voiceSettings))
            => ~requests[r].voiceCalled

\* the endpoints that change state or call out
MutatingRoutes == {ChatMessageRoute, StatusRoute, SynthesizeRoute, ChatAndSpeakRoute}

\* C17: a request to a mutating endpoint reaches service logic only after a
\* rate limiter has counted it within the maximum, and a request answered 429
\* has caused no service call.
C17_MutatingRoutesAreLimited ==
    \A r \in Tasks :
       requests[r].route \in MutatingRoutes =>
          /\ requests[r].serviceCalls > 0 =>
                /\ requests[r].limited
                /\ \E limiter \in Limiters :
                     requests[r].hitNo <= RateLimitMax(limiter)
          /\ requests[r].res.status = 429 =>
                /\ requests[r].serviceCalls = 0
                /\ ~requests[r].voiceCalled

\* C18: every response that is sent, whatever its route and status, carries
\* the three compliance headers.
C18_EveryResponseHasComplianceHeaders ==
    \A r \in Tasks :
       requests[r].res.status # 0 => ComplianceHeaders \subseteq requests[r].res.headers

\* C19: the gateway holds at most one pool that has been created and not
\* closed, so a pool is never created while an earlier one is still live.
C19_AtMostOneLivePool == Cardinality(LivePools) <= 1

\* C20: a getMarketAnalysis call whose query succeeds and whose location and
\* property type match no row fails with the not-found error and returns no
\* analysis.
C20_NoRowsIsNotFound ==
    [][(/\ Returns("getMarketAnalysis")
        /\ lastCall'.ok
        /\ MarketRows(properties, lastCall'.location, lastCall'.propertyType) = {})
          => /\ lastCall'.threw
             /\ lastCall'.error = NoMarketData
             /\ lastCall'.result = Null]_vars

\* C21: a request for a conversation that does not exist, with a well-formed
\* id (and, on the status route, a valid status) and no database failure, is
\* answered 404, on GET /conversation/:id and on PUT /conversation/:id/status.
C21_MissingConversationIs404 ==
    \A r \in Tasks :
       (/\ requests[r].res.status # 0
        /\ \/ requests[r].route = GetConversationRoute
           \/ /\ requests[r].route = StatusRoute
              /\ requests[r].body.status \in ValidStatuses
        /\ requests[r].body.conversationId \in ConvIds
        /\ requests[r].body.conversationId \notin DOMAIN conversations
        /\ ~requests[r].dbFailed)
          => requests[r].res.status = 404

\* the query of a history request holds only valid (or no) limit and offset
ValidPaging(query) ==
    /\ query.conversationId = Undefined
    /\ query.limit.defined => (query.limit.value >= 1 /\ query.limit.value <= 100)
    /\ query.offset.defined => query.offset.value >= 0

\* C22: a history request with a UUID-shaped path id and a query holding only
\* valid (or no) limit and offset is not answered 400 and, short of a database
\* failure, returns getConversationHistory(id, limit, offset) with limit
\* defaulting to 20 and offset to 0.
C22_ValidHistoryRequestPasses ==
    \A r \in Tasks :
       (/\ requests[r].res.status # 0
        /\ requests[r].route = HistoryRoute
        /\ requests[r].body.conversationId \in ConvIds
        /\ ValidPaging(requests[r].body.query))
          => /\ requests[r].res.status # 400
             /\ ~requests[r].dbFailed =>
                  /\ requests[r].res.status = 200
                  /\ requests[r].history =
                        getConversationHistory(
                           messages, maxConversationLength,
                           requests[r].body.conversationId,
                           IF requests[r].body.query.limit.defined
                           THEN requests[r].body.query.limit.value ELSE 20,
                           IF requests[r].body.query.offset.defined
                           THEN requests[r].body.query.offset.value ELSE 0)

\* C23: a scheduleShowing call on a property that is missing or neither
\* active nor pending fails and inserts nothing; a showing row is inserted one
\* at a time, with status requested, for the given property and with that
\* property's agent id, and only while the property is active or pending.
C23_ShowingOnlyForAvailableProperty ==
    [][/\ (/\ Returns("scheduleShowing")
           /\ \/ lastCall'.propertyId \notin DOMAIN properties
              \/ properties[lastCall'.propertyId].status \notin {"active", "pending"})
             => /\ lastCall'.threw
                /\ showings' = showings
       /\ showings' # showings
             => /\ Len(showings') = Len(showings) + 1
                /\ SubSeq(showings', 1, Len(showings)) = showings
                /\ LET row == showings'[Len(showings')]
                   IN  /\ row.status = "requested"
                       /\ row.property_id = scheduling.propertyId
                       /\ row.property_id \in DOMAIN properties
                       /\ row.agent_id = properties[row.property_id].agent_id
                       /\ properties[row.property_id].status \in {"active", "pending"}]_vars

\* the fields of a settings object that are present and outside [0,1]
OutOfRangeFields(settings) ==
    {f \in {"stability", "similarityBoost", "style"} : ~InUnitRange(settings[f])}

\* C24: validateVoiceSettings returns the empty list exactly when every
\* present field lies in [0,1], otherwise one violation string per
\* out-of-range field, and leaves its argument as it was.
C24_ValidateVoiceSettings ==
    lastCall.op = "validateVoiceSettings" =>
       /\ lastCall.result = <<>> <=> AllInUnitRange(lastCall.settings)
       /\ Len(lastCall.result) = Cardinality(OutOfRangeFields(lastCall.settings))
       /\ ("stability" \in OutOfRangeFields(lastCall.settings))
             <=> \E i \in DOMAIN lastCall.result :
                    lastCall.result[i] = "Stability must be between 0 and 1"
       /\ ("similarityBoost" \in OutOfRangeFields(lastCall.settings))
             <=> \E i \in DOMAIN lastCall.result :
                    lastCall.result[i] = "Similarity boost must be between 0 and 1"
       /\ ("style" \in OutOfRangeFields(lastCall.settings))
             <=> \E i \in DOMAIN lastCall.result :
                    lastCall.result[i] = "Style must be between 0 and 1"
       /\ lastCall.after = lastCall.settings
       /\ validateVoiceSettings(VoiceSettings(Num(150), NoNum, NoNum)) # <<>>
       /\ validateVoiceSettings(VoiceSettings(Num(50), Num(50), NoNum)) = <<>>

C24_Witness ==
    /\ lastCall.op = "validateVoiceSettings"
    /\ lastCall.settings = VoiceSettings(Num(100), Num(101), Num(-1))
    /\ Len(lastCall.result) = 2

\* C25: once a conversation's status is deleted, no operation gives it
\* another status, so getConversation keeps returning null for it.
C25_DeletedIsTerminal ==
    [][\A c \in DOMAIN conversations :
          conversations[c].status = "deleted"
             => /\ c \in DOMAIN conversations'
                /\ conversations'[c].status = "deleted"
                /\ getConversation(conversations', c) = Null]_vars

\* C26: whatever other processChatMessage calls were doing on the same
\* conversation (and with no other writer), the metadata.messageCount a
\* completed call returns is the persisted message_count as it was when that
\* call's assistant message had been appended.
C26_MessageCountUnderConcurrency ==
    directWrites = 0 =>
       \A t \in Tasks :
          tasks[t].pc = "done" =>
             tasks[t].result.metadata.messageCount = obs[t].countAtEnd

\* C27: in a conversation written only by processChatMessage calls, whatever
\* their interleaving, every assistant message directly follows a user
\* message, and the assistant message of a completed call directly follows
\* that call's own user message.
C27_AssistantFollowsItsUserMessage ==
    directWrites = 0 =>
       /\ \A id \in DOMAIN conversations :
             \A i \in DOMAIN messages[id] :
                messages[id][i].role = "assistant"
                   => i > 1 /\ messages[id][i - 1].role = "user"
       /\ \A t \in Tasks :
             tasks[t].pc = "done" => obs[t].asstPos = obs[t].userPos + 1

\* C28: while a conversation is soft-deleted no message is appended to it and
\* its message_count does not change, also when it was deleted after a
\* processChatMessage call had loaded it.
C28_DeletedConversationIsFrozen ==
    [][\A id \in DOMAIN conversations :
          conversations[id].status = "deleted"
             => /\ messages'[id] = messages[id]
                /\ conversations'[id].message_count = conversations[id].message_count]_vars

\* C29: a connect() that ends (by returning or by throwing, in opening the
\* pool or in the validation query) leaves the gateway flagged connected only
\* if the current pool has passed the validation query, so that after a
\* failure the next executeQuery connects afresh.
C29_ConnectedMeansValidated ==
    [][\A c \in Callers :
          (/\ callers[c].pc \in {"awaitConnect", "awaitTest"}
           /\ callers'[c].pc \in {"idle", "query"})
             => (isConnected' => connectionPool' \in validated')]_vars

\* the processChatMessage calls the process has started, on any instance
CallsStarted ==
    requestCount[ChatService] + requestCount[VoiceService] + requestCount[HealthService]

\* C30: the requestCount reported by the chat statistics, the voice
\* statistics and the detailed health check is the number of
\* processChatMessage calls the process has started.
C30_OneRequestCounter ==
    \A r \in Tasks :
       (requests[r].res.status # 0 /\ requests[r].route \in StatsRoutes)
          => requests[r].reported = CallsStarted

====
